---- MODULE Spec2Model ----
(***************************************************************************)
(* A model of the lasker chess core: the bitboard Board, the Position     *)
(* move generator, the in-place make_move / unmake_move pair operating on *)
(* GameState, the position key generator and the perft driver.            *)
(*                                                                         *)
(* Conventions                                                             *)
(*  - Option<T> is a value of T or None.                                   *)
(*  - A Bitboard is the set of its set bits (squares 0..63); |, & and ^    *)
(*    are union, intersection and symmetric difference.                    *)
(*  - A Move is its packed u32 `repr`.                                     *)
(*  - A Result is a record with a field res: "Ok", an error name, or       *)
(*    "Panic" when the call aborts the process (unwrap on None, index out  *)
(*    of bounds, arithmetic overflow in a checked build, todo!()).         *)
(***************************************************************************)
EXTENDS Integers, Sequences, FiniteSets, TLC

(***************************************************************************)
(* Bounds of the model                                                     *)
(***************************************************************************)
MaxOps == 3

\* The number of calls in a run of Board and move calls with any arguments
MaxBoardOps == 4

\* The greatest depth perft is run to
MaxDepth == 2

\* The number of moves made before perft is run
MaxPerftOps == 2

(***************************************************************************)
(* play/types.rs: Color, Piece, Square, Direction, CastlingRight           *)
(***************************************************************************)
None == -1

White == "White"
Black == "Black"

WhitePawn == 0
WhiteKnight == 1
WhiteBishop == 2
WhiteRook == 3
WhiteQueen == 4
WhiteKing == 5
BlackPawn == 6
BlackKnight == 7
BlackBishop == 8
BlackRook == 9
BlackQueen == 10
BlackKing == 11

A1 == 0
C1 == 2
D1 == 3
E1 == 4
F1 == 5
G1 == 6
H1 == 7
A8 == 56
C8 == 58
D8 == 59
E8 == 60
F8 == 61
G8 == 62
H8 == 63

North == 10
NorthEast == 11
East == 1
SouthEast == -9
South == -10
SouthWest == -11
West == -1
NorthWest == 9
NorthEastL == 21
NorthWestL == 19
EastNorthL == 12
EastSouthL == -8
SouthEastL == -19
SouthWestL == -21
WestSouthL == -12
WestNorthL == 8

CR_WhiteKing == 1
CR_WhiteQueen == 2
CR_BlackKing == 4
CR_BlackQueen == 8

U8Max == 255

(***************************************************************************)
(* board/constants.rs                                                      *)
(***************************************************************************)
SQUARES == 0 .. 63

PIECES == 0 .. 11

WHITE_PIECES == << WhitePawn, WhiteKnight, WhiteBishop, WhiteRook, WhiteQueen, WhiteKing >>

BLACK_PIECES == << BlackPawn, BlackKnight, BlackBishop, BlackRook, BlackQueen, BlackKing >>

DIRECTIONS ==
  << North, East, West, South, SouthEast, SouthWest, NorthEast, NorthWest,
     NorthEastL, NorthWestL, EastNorthL, EastSouthL,
     SouthEastL, SouthWestL, WestSouthL, WestNorthL >>

\* MAILBOX[i] is at position i + 1 of the tuple.
MAILBOX ==
  << -1, -1, -1, -1, -1, -1, -1, -1, -1, -1,
     -1, -1, -1, -1, -1, -1, -1, -1, -1, -1,
     -1,  0,  1,  2,  3,  4,  5,  6,  7, -1,
     -1,  8,  9, 10, 11, 12, 13, 14, 15, -1,
     -1, 16, 17, 18, 19, 20, 21, 22, 23, -1,
     -1, 24, 25, 26, 27, 28, 29, 30, 31, -1,
     -1, 32, 33, 34, 35, 36, 37, 38, 39, -1,
     -1, 40, 41, 42, 43, 44, 45, 46, 47, -1,
     -1, 48, 49, 50, 51, 52, 53, 54, 55, -1,
     -1, 56, 57, 58, 59, 60, 61, 62, 63, -1,
     -1, -1, -1, -1, -1, -1, -1, -1, -1, -1,
     -1, -1, -1, -1, -1, -1, -1, -1, -1, -1 >>

\* MAILBOX_IDX[sq] is at position sq + 1 of the tuple.
MAILBOX_IDX ==
  << 21, 22, 23, 24, 25, 26, 27, 28,
     31, 32, 33, 34, 35, 36, 37, 38,
     41, 42, 43, 44, 45, 46, 47, 48,
     51, 52, 53, 54, 55, 56, 57, 58,
     61, 62, 63, 64, 65, 66, 67, 68,
     71, 72, 73, 74, 75, 76, 77, 78,
     81, 82, 83, 84, 85, 86, 87, 88,
     91, 92, 93, 94, 95, 96, 97, 98 >>

(***************************************************************************)
(* Square, Piece and Color helpers                                         *)
(***************************************************************************)
\* Value standing for an aborted index computation (out of the table).
OutOfTable == -2

\* Square + i8 reading the table one cell early
SqAdd_cell_before(sq, rhs) ==
  LET mailbox_idx == MAILBOX_IDX[sq + 1] + rhs
  IN  IF mailbox_idx < 1 \/ mailbox_idx > 119 THEN OutOfTable
      ELSE MAILBOX[mailbox_idx]

\* impl Add<i8> for Square: the mailbox number of the square `rhs` away.
SqAdd(sq, rhs) ==
  LET mailbox_idx == MAILBOX_IDX[sq + 1] + rhs
  IN  IF mailbox_idx < 0 \/ mailbox_idx > 119 THEN OutOfTable
      ELSE MAILBOX[mailbox_idx + 1]

\* Square::rank: 1..8
rank(sq) == (sq \div 8) + 1

\* Square::file: 0..7
file(sq) == sq % 8

\* Square::new(file, rank)
Sq(f, r) == (r - 1) * 8 + f

\* Piece::color
color(piece) == IF piece < 6 THEN White ELSE Black

\* Piece::opposing_color / Color::opposing
opposing(c) == IF c = White THEN Black ELSE White

\* Piece::can_slide
can_slide(piece) ==
  piece \notin { WhitePawn, BlackPawn, WhiteKnight, BlackKnight, WhiteKing, BlackKing }

\* Piece::attack_direction_idx, as the slice DIRECTIONS[range]
attack_dirs(piece) ==
  CASE piece = WhitePawn -> SubSeq(DIRECTIONS, 5, 6)
    [] piece = BlackPawn -> SubSeq(DIRECTIONS, 7, 8)
    [] piece \in { WhiteKnight, BlackKnight } -> SubSeq(DIRECTIONS, 9, 16)
    [] piece \in { WhiteBishop, BlackBishop } -> SubSeq(DIRECTIONS, 5, 8)
    [] piece \in { WhiteRook, BlackRook } -> SubSeq(DIRECTIONS, 1, 4)
    [] OTHER -> SubSeq(DIRECTIONS, 1, 8)

(***************************************************************************)
(* play/board/mod.rs: Board                                                *)
(***************************************************************************)
\* Bitboard ^ Bitboard
Xor(a, b) == (a \ b) \cup (b \ a)

\* Board::empty
EmptyBoard == [p \in PIECES |-> {}]

\* Board::default
DefaultBoard ==
  [p \in PIECES |->
     CASE p = WhitePawn -> { sq \in SQUARES : rank(sq) = 2 }
       [] p = WhiteKnight -> { 1, 6 }
       [] p = WhiteBishop -> { 2, 5 }
       [] p = WhiteRook -> { A1, H1 }
       [] p = WhiteQueen -> { D1 }
       [] p = WhiteKing -> { E1 }
       [] p = BlackPawn -> { sq \in SQUARES : rank(sq) = 7 }
       [] p = BlackKnight -> { 57, 62 }
       [] p = BlackBishop -> { 58, 61 }
       [] p = BlackRook -> { A8, H8 }
       [] p = BlackQueen -> { D8 }
       [] OTHER -> { E8 }]

\* Board::bitboard_union
bitboard_union(b) == UNION { b[p] : p \in PIECES }

\* Board::sq_taken: (bitboard_union & sq) != 0
sq_taken(b, sq) == \E p \in PIECES : sq \in b[p]

\* Board::sq_taken_by_color: (the union of the colour's six bitboards & sq) != 0
sq_taken_by_color(b, sq, c) ==
  IF c = White
  THEN \E p \in { WhitePawn, WhiteKnight, WhiteBishop, WhiteRook, WhiteQueen, WhiteKing } :
         sq \in b[p]
  ELSE \E p \in { BlackPawn, BlackBishop, BlackKnight, BlackRook, BlackQueen, BlackKing } :
         sq \in b[p]

\* Board::piece: the first of the 12 bitboards, in the order of the if-chain,
\* that holds sq
piece(b, sq) ==
  IF sq \in b[WhitePawn] THEN WhitePawn
  ELSE IF sq \in b[WhiteKnight] THEN WhiteKnight
  ELSE IF sq \in b[WhiteBishop] THEN WhiteBishop
  ELSE IF sq \in b[WhiteRook] THEN WhiteRook
  ELSE IF sq \in b[WhiteQueen] THEN WhiteQueen
  ELSE IF sq \in b[WhiteKing] THEN WhiteKing
  ELSE IF sq \in b[BlackPawn] THEN BlackPawn
  ELSE IF sq \in b[BlackKnight] THEN BlackKnight
  ELSE IF sq \in b[BlackBishop] THEN BlackBishop
  ELSE IF sq \in b[BlackRook] THEN BlackRook
  ELSE IF sq \in b[BlackQueen] THEN BlackQueen
  ELSE IF sq \in b[BlackKing] THEN BlackKing
  ELSE None

\* add_piece without the occupancy test: the bitboards stay disjoint only
\* because add_piece makes that test
add_piece_unchecked(b, pc, sq) ==
  [res |-> "Ok", board |-> [b EXCEPT ![pc] = @ \cup {sq}]]

\* Board::add_piece
add_piece(b, pc, sq) ==
  IF sq_taken(b, sq)
  THEN [res |-> "SquareTakenError", board |-> b]
  ELSE [res |-> "Ok", board |-> [b EXCEPT ![pc] = @ \cup {sq}]]

\* remove_piece with the |= of add_piece in the place of ^=: the piece is
\* returned and stays on its square
remove_piece_kept(b, sq) ==
  LET pc == piece(b, sq)
  IN  IF pc = None
      THEN [res |-> "NoPieceOnSquareError", board |-> b, piece |-> None]
      ELSE [res |-> "Ok", board |-> [b EXCEPT ![pc] = @ \cup {sq}], piece |-> pc]

\* Board::remove_piece
remove_piece(b, sq) ==
  LET pc == piece(b, sq)
  IN  IF pc = None
      THEN [res |-> "NoPieceOnSquareError", board |-> b, piece |-> None]
      ELSE [res |-> "Ok", board |-> [b EXCEPT ![pc] = Xor(@, {sq})], piece |-> pc]

\* Board::move_piece
move_piece(b, origin, dest) ==
  IF sq_taken(b, dest)
  THEN [res |-> "SquareTakenError", board |-> b]
  ELSE LET pc == piece(b, origin)
       IN  IF pc = None
           THEN [res |-> "Panic", board |-> b]
           ELSE LET r == remove_piece(b, origin)
                IN  IF r.res # "Ok" THEN [res |-> r.res, board |-> r.board]
                    ELSE add_piece(r.board, pc, dest)

\* Board::pieces: the pieces of a colour with a non-empty bitboard, in order
pieces(b, c) ==
  LET piece_arr == IF c = White THEN WHITE_PIECES ELSE BLACK_PIECES
  IN  SelectSeq(piece_arr, LAMBDA p : b[p] # {})

(***************************************************************************)
(* play/move/mod.rs: Move, the packed u32                                  *)
(***************************************************************************)
\* u32 | u32
RECURSIVE BitOr(_, _)
BitOr(a, b) ==
  IF a = 0 THEN b
  ELSE IF b = 0 THEN a
  ELSE (IF a % 2 = 1 \/ b % 2 = 1 THEN 1 ELSE 0) + 2 * BitOr(a \div 2, b \div 2)

\* Move::new with the promoted piece shifted by 15 bits, onto the top bit of
\* the captured piece
Move_new_promoted_shift_15(from, to, captured_piece, promoted_piece, is_en_passant, is_pawn_start, is_castle) ==
  LET from_sq_bits == from
      to_sq_bits == to * 64
      captured_piece_bits ==
        (IF captured_piece # None THEN captured_piece + 1 ELSE 0) * 4096
      promoted_piece_bits ==
        (IF promoted_piece # None THEN promoted_piece + 1 ELSE 0) * 32768
      en_passant_bit == IF is_en_passant THEN 1048576 ELSE 0
      pawn_start_bit == IF is_pawn_start THEN 2097152 ELSE 0
      castle_bit == IF is_castle THEN 4194304 ELSE 0
  IN  BitOr(BitOr(BitOr(BitOr(BitOr(BitOr(from_sq_bits, to_sq_bits),
                                    captured_piece_bits),
                              promoted_piece_bits),
                        en_passant_bit),
                  pawn_start_bit),
            castle_bit)

\* Move::new
Move_new(from, to, captured_piece, promoted_piece, is_en_passant, is_pawn_start, is_castle) ==
  LET from_sq_bits == from
      to_sq_bits == to * 64
      captured_piece_bits ==
        (IF captured_piece # None THEN captured_piece + 1 ELSE 0) * 4096
      promoted_piece_bits ==
        (IF promoted_piece # None THEN promoted_piece + 1 ELSE 0) * 65536
      en_passant_bit == IF is_en_passant THEN 1048576 ELSE 0
      pawn_start_bit == IF is_pawn_start THEN 2097152 ELSE 0
      castle_bit == IF is_castle THEN 4194304 ELSE 0
  IN  BitOr(BitOr(BitOr(BitOr(BitOr(BitOr(from_sq_bits, to_sq_bits),
        captured_piece_bits), promoted_piece_bits), en_passant_bit),
        pawn_start_bit), castle_bit)

\* Move::from_sq
from_sq(mv) == mv % 64

\* Move::to_sq
to_sq(mv) == (mv \div 64) % 64

\* Move::captured
captured(mv) ==
  LET idx == (mv \div 4096) % 16
  IN  IF idx = 0 THEN None ELSE idx - 1

\* Move::promoted
promoted(mv) ==
  LET idx == (mv \div 65536) % 16
  IN  IF idx = 0 THEN None ELSE idx - 1

\* Move::en_passant
en_passant(mv) == (mv \div 1048576) % 2 = 1

\* Move::pawn_start
pawn_start(mv) == (mv \div 2097152) % 2 = 1

\* Move::castle
castle(mv) == (mv \div 4194304) % 2 = 1

(***************************************************************************)
(* play/types.rs: CastlingRights, a nibble held as 0..15                   *)
(***************************************************************************)
\* u8 & u8
RECURSIVE BitAnd(_, _)
BitAnd(a, b) ==
  IF a = 0 \/ b = 0 THEN 0
  ELSE (IF a % 2 = 1 /\ b % 2 = 1 THEN 1 ELSE 0) + 2 * BitAnd(a \div 2, b \div 2)

\* CastlingRights::all
CastlingRights_all == 15

white_kingside(cr) == cr % 2 = 1

white_queenside(cr) == (cr \div 2) % 2 = 1

black_kingside(cr) == (cr \div 4) % 2 = 1

black_queenside(cr) == (cr \div 8) % 2 = 1

\* unset_white_bits with the mask 0b0000: the castle of one colour would
\* take the rights of the other colour too
unset_white_bits_all(cr) == BitAnd(cr, 0)

\* CastlingRights::unset_white_bits: self.0 &= 0b1100
unset_white_bits(cr) == BitAnd(cr, 12)

\* unset_black_bits with |= 0b0011 in place of &= 0b0011: it sets the white
\* bits where unset_black_bits clears the black ones
unset_black_bits_or(cr) == BitOr(cr, 3)


\* CastlingRights::unset_black_bits: self.0 &= 0b0011
unset_black_bits(cr) == BitAnd(cr, 3)

(***************************************************************************)
(* board/utils.rs and play/position/mod.rs: attacks and move generation    *)
(***************************************************************************)
\* Square::from_mailbox_no: SQUARES[mailbox_no as usize]
from_mailbox_no(mailbox_no) ==
  IF mailbox_no \in SQUARES THEN mailbox_no ELSE OutOfTable

\* utils::recur_attack_sq_search
RECURSIVE recur_attack_sq_search(_, _, _, _, _)
recur_attack_sq_search(b, dirs, sq, depth, attack_bb) ==
  LET onboard == SelectSeq(dirs, LAMBDA dir : SqAdd(sq, dir * depth) >= 0)
      hit == \E i \in 1 .. Len(onboard) :
               from_mailbox_no(SqAdd(sq, onboard[i] * depth)) \in attack_bb
      to_search == SelectSeq(onboard,
                     LAMBDA dir : ~sq_taken(b, from_mailbox_no(SqAdd(sq, dir * depth))))
  IN  IF hit THEN TRUE
      ELSE IF to_search # << >>
           THEN recur_attack_sq_search(b, to_search, sq, depth + 1, attack_bb)
           ELSE FALSE

\* is_square_attacked with move_direction_idx in the place of
\* attack_direction_idx: the two pawn ranges are exchanged
is_square_attacked_move_dirs(b, sq, by) ==
  LET piece_array == IF by = White THEN WHITE_PIECES ELSE BLACK_PIECES
  IN  \E k \in 1 .. 6 :
        LET pc == piece_array[k]
            dirs == IF pc = WhitePawn THEN SubSeq(DIRECTIONS, 7, 8)
                    ELSE IF pc = BlackPawn THEN SubSeq(DIRECTIONS, 5, 6)
                    ELSE attack_dirs(pc)
            attack_bb == b[pc]
        IN  /\ attack_bb # {}
            /\ IF ~can_slide(pc)
               THEN \E i \in 1 .. Len(dirs) :
                      LET mailbox_no == SqAdd(sq, dirs[i])
                      IN  mailbox_no >= 0 /\ from_mailbox_no(mailbox_no) \in attack_bb
               ELSE recur_attack_sq_search(b, dirs, sq, 1, attack_bb)

\* Position::is_square_attacked
is_square_attacked(b, sq, by) ==
  LET piece_array == IF by = White THEN WHITE_PIECES ELSE BLACK_PIECES
  IN  \E k \in 1 .. 6 :
        LET pc == piece_array[k]
            dirs == attack_dirs(pc)
            attack_bb == b[pc]
        IN  /\ attack_bb # {}
            /\ IF ~can_slide(pc)
               THEN \E i \in 1 .. Len(dirs) :
                      LET mailbox_no == SqAdd(sq, dirs[i])
                      IN  mailbox_no >= 0 /\ from_mailbox_no(mailbox_no) \in attack_bb
               ELSE recur_attack_sq_search(b, dirs, sq, 1, attack_bb)

\* recur_move_search that walks on behind a captured piece
RECURSIVE recur_move_search_through(_, _, _, _, _)
recur_move_search_through(b, c, dirs, sq, depth) ==
  LET open == SelectSeq(dirs,
                LAMBDA dir : /\ SqAdd(sq, dir * depth) >= 0
                             /\ ~sq_taken_by_color(b, from_mailbox_no(SqAdd(sq, dir * depth)), c))
      pushed == [i \in 1 .. Len(open) |->
                   LET other_sq == from_mailbox_no(SqAdd(sq, open[i] * depth))
                   IN  Move_new(sq, other_sq, piece(b, other_sq), None, FALSE, FALSE, FALSE)]
      to_search == open
  IN  IF to_search # << >>
      THEN pushed \o recur_move_search_through(b, c, to_search, sq, depth + 1)
      ELSE pushed

\* utils::recur_move_search: the moves it pushes, in push order
RECURSIVE recur_move_search(_, _, _, _, _)
recur_move_search(b, c, dirs, sq, depth) ==
  LET open == SelectSeq(dirs,
                LAMBDA dir : /\ SqAdd(sq, dir * depth) >= 0
                             /\ ~sq_taken_by_color(b, from_mailbox_no(SqAdd(sq, dir * depth)), c))
      pushed == [i \in 1 .. Len(open) |->
                   LET other_sq == from_mailbox_no(SqAdd(sq, open[i] * depth))
                   IN  Move_new(sq, other_sq, piece(b, other_sq), None, FALSE, FALSE, FALSE)]
      to_search == SelectSeq(open,
                     LAMBDA dir : piece(b, from_mailbox_no(SqAdd(sq, dir * depth))) = None)
  IN  IF to_search # << >>
      THEN pushed \o recur_move_search(b, c, to_search, sq, depth + 1)
      ELSE pushed

RECURSIVE Flatten(_)
Flatten(seqs) == IF seqs = << >> THEN << >> ELSE Head(seqs) \o Flatten(Tail(seqs))

\* Into<Vec<Square>> for Bitboard (utils::set_bits): the squares in ascending order
set_bits(bb) ==
  [i \in 1 .. Cardinality(bb) |->
     CHOOSE sq \in bb : Cardinality({ lower \in bb : lower < sq }) = i - 1]

\* One capture diagonal of a pawn on sq (the capture / en-passant branch of
\* Position::legal_moves); promo_rank is the rank the code compares sq.rank() to.
PawnDiagonal(s, sq, dir, enemy, promo_rank, promo_piece, ep_captured) ==
  LET diag_mailbox_no == SqAdd(sq, dir)
  IN  IF diag_mailbox_no >= 0
      THEN LET d_sq == from_mailbox_no(diag_mailbox_no)
           IN  IF sq_taken_by_color(s.board, d_sq, enemy)
               THEN << Move_new(sq, d_sq, piece(s.board, d_sq),
                                IF rank(sq) = promo_rank THEN promo_piece ELSE None,
                                FALSE, FALSE, FALSE) >>
               ELSE IF s.en_passant # None /\ d_sq = s.en_passant
                    THEN << Move_new(sq, d_sq, ep_captured, None, TRUE, FALSE, FALSE) >>
                    ELSE << >>
      ELSE << >>

\* The push branches without the test of the square one step ahead in the
\* pawn start
PawnForward_over_blocker(s, sq, push_dir, start_rank, promo_rank, promo_piece) ==
  LET fwd_mailbox_no == SqAdd(sq, push_dir)
      pawn_start_mvs ==
        IF rank(sq) = start_rank
        THEN LET sq_2_in_front == from_mailbox_no(SqAdd(sq, 2 * push_dir))
             IN  IF ~sq_taken(s.board, sq_2_in_front)
                 THEN << Move_new(sq, sq_2_in_front, None, None, FALSE, TRUE, FALSE) >>
                 ELSE << >>
        ELSE << >>
      forward_mvs ==
        IF fwd_mailbox_no >= 0 /\ ~sq_taken(s.board, from_mailbox_no(fwd_mailbox_no))
        THEN << Move_new(sq, from_mailbox_no(fwd_mailbox_no), None,
                         IF rank(sq) = promo_rank THEN promo_piece ELSE None,
                         FALSE, FALSE, FALSE) >>
        ELSE << >>
  IN  pawn_start_mvs \o forward_mvs

\* The start-rank and forward branches of a pawn on sq.
PawnForward(s, sq, push_dir, start_rank, promo_rank, promo_piece) ==
  LET fwd_mailbox_no == SqAdd(sq, push_dir)
      pawn_start_mvs ==
        IF rank(sq) = start_rank
        THEN LET sq_2_in_front == from_mailbox_no(SqAdd(sq, 2 * push_dir))
             IN  IF ~sq_taken(s.board, from_mailbox_no(fwd_mailbox_no))
                    /\ ~sq_taken(s.board, sq_2_in_front)
                 THEN << Move_new(sq, sq_2_in_front, None, None, FALSE, TRUE, FALSE) >>
                 ELSE << >>
        ELSE << >>
      forward_mvs ==
        IF fwd_mailbox_no >= 0 /\ ~sq_taken(s.board, from_mailbox_no(fwd_mailbox_no))
        THEN << Move_new(sq, from_mailbox_no(fwd_mailbox_no), None,
                         IF rank(sq) = promo_rank THEN promo_piece ELSE None,
                         FALSE, FALSE, FALSE) >>
        ELSE << >>
  IN  pawn_start_mvs \o forward_mvs

\* Position::legal_moves, arm Piece::WhitePawn
WhitePawnMoves(s, sq) ==
  PawnForward(s, sq, North, 2, 7, WhiteQueen)
    \o PawnDiagonal(s, sq, NorthWest, Black, 7, WhiteQueen, BlackPawn)
    \o PawnDiagonal(s, sq, NorthEast, Black, 7, WhiteQueen, BlackPawn)

\* Position::legal_moves, arm Piece::BlackPawn (the left diagonal compares
\* sq.rank() with Rank7, as the source does)
BlackPawnMoves(s, sq) ==
  PawnForward(s, sq, South, 7, 2, BlackQueen)
    \o PawnDiagonal(s, sq, SouthWest, White, 7, BlackQueen, WhitePawn)
    \o PawnDiagonal(s, sq, SouthEast, White, 2, BlackQueen, WhitePawn)

\* Position::legal_moves, arm WhiteKnight | BlackKnight
KnightMoves(s, pc, sq) ==
  LET dirs == attack_dirs(pc)
      open == SelectSeq(dirs,
                LAMBDA dir : /\ SqAdd(sq, dir) >= 0
                             /\ ~sq_taken_by_color(s.board, from_mailbox_no(SqAdd(sq, dir)), color(pc)))
  IN  [i \in 1 .. Len(open) |->
         LET other_sq == from_mailbox_no(SqAdd(sq, open[i]))
         IN  Move_new(sq, other_sq, piece(s.board, other_sq), None, FALSE, FALSE, FALSE)]

\* Position::legal_moves, arm WhiteKing | BlackKing, normal moves
KingStepMoves(s, pc, sq) ==
  LET dirs == attack_dirs(pc)
      open == SelectSeq(dirs,
                LAMBDA dir : /\ SqAdd(sq, dir) >= 0
                             /\ ~sq_taken_by_color(s.board, from_mailbox_no(SqAdd(sq, dir)), color(pc))
                             /\ ~is_square_attacked(s.board, from_mailbox_no(SqAdd(sq, dir)), opposing(color(pc))))
  IN  [i \in 1 .. Len(open) |->
         LET other_sq == from_mailbox_no(SqAdd(sq, open[i]))
         IN  Move_new(sq, other_sq, piece(s.board, other_sq), None, FALSE, FALSE, FALSE)]

\* One castling branch: the right is held, the two squares are empty and unattacked.
CastleMove(s, held, king_from, sq_a, sq_b, king_to, enemy) ==
  IF /\ held
     /\ ~sq_taken(s.board, sq_a)
     /\ ~sq_taken(s.board, sq_b)
     /\ ~is_square_attacked(s.board, sq_a, enemy)
     /\ ~is_square_attacked(s.board, sq_b, enemy)
  THEN << Move_new(king_from, king_to, None, None, FALSE, FALSE, TRUE) >>
  ELSE << >>

\* Position::legal_moves, arm WhiteKing | BlackKing, castling
CastlingMoves(s, pc) ==
  IF color(pc) = White
  THEN CastleMove(s, white_kingside(s.castling_permissions), E1, F1, G1, G1, Black)
         \o CastleMove(s, white_queenside(s.castling_permissions), E1, C1, D1, C1, Black)
  ELSE CastleMove(s, black_kingside(s.castling_permissions), E8, F8, G8, G8, White)
         \o CastleMove(s, black_queenside(s.castling_permissions), E8, C8, D8, C8, White)

\* The moves Position::legal_moves pushes for the piece pc standing on sq
PieceMoves(s, pc, sq) ==
  CASE pc = WhitePawn -> WhitePawnMoves(s, sq)
    [] pc = BlackPawn -> BlackPawnMoves(s, sq)
    [] pc \in { WhiteKnight, BlackKnight } -> KnightMoves(s, pc, sq)
    [] pc \in { WhiteKing, BlackKing } -> KingStepMoves(s, pc, sq) \o CastlingMoves(s, pc)
    [] OTHER -> recur_move_search(s.board, color(pc), attack_dirs(pc), sq, 1)

\* Position::legal_moves: the MoveList, as the sequence of pushed moves
legal_moves(s) ==
  LET ps == pieces(s.board, s.side_to_move)
  IN  Flatten([k \in 1 .. Len(ps) |->
         LET piece_squares == set_bits(s.board[ps[k]])
         IN  Flatten([i \in 1 .. Len(piece_squares) |->
                        PieceMoves(s, ps[k], piece_squares[i])])])

(***************************************************************************)
(* play/mod.rs and play/position/mod.rs: GameState with its Position       *)
(* (the Position fields are kept flat in the same record)                  *)
(***************************************************************************)
\* The u64 position key.  The key tables of PositionKeyGenerator hold
\* independent random u64 values; a key is held as the set of table entries
\* XOR-ed into it, so that 0 is {} and ^ is the symmetric difference.
ZeroKey == {}

\* GameState::default with Position::default, for a given board and Position fields
GameStateOf(b, stm, cr, ep) ==
  [ board |-> b,
    side_to_move |-> stm,
    en_passant |-> ep,
    castling_permissions |-> cr,
    castling_perms_history |-> << >>,
    fifty_move_counter |-> 0,
    fifty_move_country_hist |-> << >>,
    ply |-> 0,
    history_ply |-> 0,
    position_key |-> ZeroKey ]

\* GameState::default
GameState_default == GameStateOf(DefaultBoard, White, CastlingRights_all, None)

\* Position::flip_side
flip_side(s) == [s EXCEPT !.side_to_move = opposing(@)]

(***************************************************************************)
(* play/move/mod.rs: make_move                                             *)
(***************************************************************************)
Ret(r, s) == [res |-> r, st |-> s]

\* The ? operator: x is the result so far and next the result of the rest,
\* run from x.st; an error in x is returned as it is
Then(x, next) == IF x.res = "Ok" THEN next ELSE x

\* A board call inside a GameState transaction
OnBoard(s, r) == Ret(r.res, [s EXCEPT !.board = r.board])

\* make_move: the fifty-move counter (u8; `wraps` is the unchecked build)
make_move_fifty(mv, s, wraps) ==
  IF \/ captured(mv) # None
     \/ piece(s.board, from_sq(mv)) = WhitePawn
     \/ piece(s.board, from_sq(mv)) = BlackPawn
  THEN Ret("Ok", [s EXCEPT !.fifty_move_counter = 0])
  ELSE IF s.fifty_move_counter = U8Max /\ ~wraps
       THEN Ret("Panic", s)
       ELSE Ret("Ok", [s EXCEPT !.fifty_move_counter = (@ + 1) % (U8Max + 1)])

\* make_move: remove the captured piece
make_move_capture(mv, s) ==
  IF captured(mv) # None /\ ~en_passant(mv)
  THEN OnBoard(s, remove_piece(s.board, to_sq(mv)))
  ELSE IF captured(mv) # None /\ en_passant(mv)
       THEN LET dir == IF s.side_to_move = White THEN South ELSE North
            IN  IF s.en_passant = None
                THEN Ret("StateMismatch", s)
                ELSE LET capture_sq == from_mailbox_no(SqAdd(s.en_passant, dir))
                     IN  IF capture_sq = OutOfTable
                         THEN Ret("Panic", s)
                         ELSE OnBoard(s, remove_piece(s.board, capture_sq))
       ELSE Ret("Ok", s)

\* make_move: move the piece, and the rook of a castle
make_move_piece(mv, s) ==
  LET moved == OnBoard(s, move_piece(s.board, from_sq(mv), to_sq(mv)))
      rook(t, origin, dest) == OnBoard(t, move_piece(t.board, origin, dest))
      white(t) == Ret("Ok", [t EXCEPT !.castling_permissions = unset_white_bits(@)])
      black(t) == Ret("Ok", [t EXCEPT !.castling_permissions = unset_black_bits(@)])
      rooked(origin, dest) == rook(moved.st, origin, dest)
  IN  Then(moved,
        IF castle(mv)
        THEN IF from_sq(mv) = E1
             THEN IF to_sq(mv) = G1 THEN Then(rooked(H1, F1), white(rooked(H1, F1).st))
                  ELSE IF to_sq(mv) = C1 THEN Then(rooked(A1, D1), white(rooked(A1, D1).st))
                  ELSE white(moved.st)
             ELSE IF from_sq(mv) = E8
                  THEN IF to_sq(mv) = G8 THEN Then(rooked(H8, F8), black(rooked(H8, F8).st))
                       ELSE IF to_sq(mv) = C8 THEN Then(rooked(A8, D8), black(rooked(A8, D8).st))
                       ELSE black(moved.st)
                  ELSE Ret("Ok", moved.st)
        ELSE Ret("Ok", moved.st))

\* make_move: the castling bit of a rook leaving its home corner; the board
\* is read after the piece has been moved
make_move_rook_rights(mv, s) ==
  LET clear(bit) == [s EXCEPT !.castling_permissions = BitAnd(@, CastlingRights_all - bit)]
  IN  IF from_sq(mv) = A1 /\ piece(s.board, A1) = WhiteRook THEN clear(CR_WhiteQueen)
      ELSE IF from_sq(mv) = H1 /\ piece(s.board, H1) = WhiteRook THEN clear(CR_WhiteKing)
      ELSE IF from_sq(mv) = A8 /\ piece(s.board, A8) = BlackRook THEN clear(CR_BlackQueen)
      ELSE IF from_sq(mv) = H8 /\ piece(s.board, H8) = BlackRook THEN clear(CR_BlackKing)
      ELSE s

\* make_move without the else branch: a move that is no double push would
\* leave the en-passant square of the move before it
make_move_en_passant_kept(mv, s) ==
  IF pawn_start(mv)
  THEN LET dir == IF s.side_to_move = White THEN South ELSE North
           sq == from_mailbox_no(SqAdd(to_sq(mv), dir))
       IN  IF sq = OutOfTable THEN Ret("Panic", s)
           ELSE Ret("Ok", [s EXCEPT !.en_passant = sq])
  ELSE Ret("Ok", s)

\* make_move: the en-passant square
make_move_en_passant(mv, s) ==
  IF pawn_start(mv)
  THEN LET dir == IF s.side_to_move = White THEN South ELSE North
           sq == from_mailbox_no(SqAdd(to_sq(mv), dir))
       IN  IF sq = OutOfTable THEN Ret("Panic", s)
           ELSE Ret("Ok", [s EXCEPT !.en_passant = sq])
  ELSE Ret("Ok", [s EXCEPT !.en_passant = None])

\* make_move: the promotion
make_move_promotion(mv, s) ==
  IF promoted(mv) # None
  THEN LET removed == OnBoard(s, remove_piece(s.board, to_sq(mv)))
       IN  Then(removed,
                OnBoard(removed.st, add_piece(removed.st.board, promoted(mv), to_sq(mv))))
  ELSE Ret("Ok", s)

\* make_move: ply (u8), side to move and the two history pushes
make_move_history(mv, s, wraps) ==
  IF s.ply = U8Max /\ ~wraps
  THEN Ret("Panic", s)
  ELSE LET t == flip_side([s EXCEPT !.ply = (@ + 1) % (U8Max + 1)])
       IN  Ret("Ok",
             [t EXCEPT !.fifty_move_country_hist = Append(@, t.fifty_move_counter),
                       !.castling_perms_history = Append(@, t.castling_permissions)])

\* make_move
make_move(mv, state, wraps) ==
  LET counted == make_move_fifty(mv, state, wraps)
      taken == Then(counted, make_move_capture(mv, counted.st))
      moved == Then(taken, make_move_piece(mv, taken.st))
      marked == Then(moved, make_move_en_passant(mv, make_move_rook_rights(mv, moved.st)))
      promo == Then(marked, make_move_promotion(mv, marked.st))
  IN  Then(promo, make_move_history(mv, promo.st, wraps))

\* unmake_move without the promotion branch: the promoted piece itself would
\* go back to from
unmake_move_piece_plain(mv, s) ==
  OnBoard(s, move_piece(s.board, to_sq(mv), from_sq(mv)))

(***************************************************************************)
(* play/move/mod.rs: unmake_move                                           *)
(***************************************************************************)
\* unmake_move: take the piece back (a promoted piece becomes a pawn on from)
unmake_move_piece(mv, s) ==
  IF promoted(mv) # None
  THEN LET pawn == IF color(promoted(mv)) = White THEN WhitePawn ELSE BlackPawn
           removed == OnBoard(s, remove_piece(s.board, to_sq(mv)))
       IN  Then(removed,
                OnBoard(removed.st, add_piece(removed.st.board, pawn, from_sq(mv))))
  ELSE OnBoard(s, move_piece(s.board, to_sq(mv), from_sq(mv)))

\* unmake_move: put a captured piece back on to
unmake_move_capture(mv, s) ==
  IF ~en_passant(mv) /\ captured(mv) # None
  THEN OnBoard(s, add_piece(s.board, captured(mv), to_sq(mv)))
  ELSE Ret("Ok", s)

\* unmake_move with the two arms of the match on side_to_move exchanged: the
\* pawn put back would be of the capturing colour, one step beyond to
unmake_move_en_passant_swapped(mv, s) ==
  IF en_passant(mv)
  THEN LET dir == IF s.side_to_move = White THEN South ELSE North
           pawn == IF s.side_to_move = White THEN BlackPawn ELSE WhitePawn
           sq == from_mailbox_no(SqAdd(to_sq(mv), dir))
       IN  IF sq = OutOfTable THEN Ret("Panic", s)
           ELSE LET added == OnBoard(s, add_piece(s.board, pawn, sq))
                IN  Then(added, Ret("Ok", [added.st EXCEPT !.en_passant = to_sq(mv)]))
  ELSE Ret("Ok", [s EXCEPT !.en_passant = None])

\* unmake_move: the en-passant victim and the en-passant square
unmake_move_en_passant(mv, s) ==
  IF en_passant(mv)
  THEN LET dir == IF s.side_to_move = White THEN North ELSE South
           pawn == IF s.side_to_move = White THEN WhitePawn ELSE BlackPawn
           sq == from_mailbox_no(SqAdd(to_sq(mv), dir))
       IN  IF sq = OutOfTable THEN Ret("Panic", s)
           ELSE LET added == OnBoard(s, add_piece(s.board, pawn, sq))
                IN  Then(added, Ret("Ok", [added.st EXCEPT !.en_passant = to_sq(mv)]))
  ELSE Ret("Ok", [s EXCEPT !.en_passant = None])

\* unmake_move: ply (u8), side to move and the two history pops
unmake_move_history(mv, s, wraps) ==
  IF s.ply = 0 /\ ~wraps
  THEN Ret("Panic", s)
  ELSE LET t == flip_side([s EXCEPT !.ply = (@ + U8Max) % (U8Max + 1)])
       IN  IF t.fifty_move_country_hist = << >>
           THEN Ret("InsufficientHistory", t)
           ELSE LET n == Len(t.fifty_move_country_hist)
                    u == [t EXCEPT !.fifty_move_counter = t.fifty_move_country_hist[n],
                                   !.fifty_move_country_hist = SubSeq(@, 1, n - 1)]
                IN  IF u.castling_perms_history = << >>
                    THEN Ret("InsufficientHistory", u)
                    ELSE LET m == Len(u.castling_perms_history)
                         IN  Ret("Ok",
                               [u EXCEPT !.castling_permissions = u.castling_perms_history[m],
                                         !.castling_perms_history = SubSeq(@, 1, m - 1)])

\* unmake_move
unmake_move(mv, state, wraps) ==
  LET moved == unmake_move_piece(mv, state)
      restored == Then(moved, unmake_move_capture(mv, moved.st))
      marked == Then(restored, unmake_move_en_passant(mv, restored.st))
  IN  Then(marked, unmake_move_history(mv, marked.st, wraps))

(***************************************************************************)
(* FEN parsing: play/board/mod.rs, play/types.rs, play/position/mod.rs,    *)
(* play/mod.rs.  A string is the sequence of its characters.               *)
(***************************************************************************)
\* char::to_digit(10)
to_digit(ch) ==
  CASE ch = "0" -> 0 [] ch = "1" -> 1 [] ch = "2" -> 2 [] ch = "3" -> 3
    [] ch = "4" -> 4 [] ch = "5" -> 5 [] ch = "6" -> 6 [] ch = "7" -> 7
    [] ch = "8" -> 8 [] ch = "9" -> 9 [] OTHER -> None

\* TryFrom<char> for Piece
Piece_try_from(ch) ==
  CASE ch = "P" -> WhitePawn [] ch = "N" -> WhiteKnight [] ch = "B" -> WhiteBishop
    [] ch = "R" -> WhiteRook [] ch = "Q" -> WhiteQueen [] ch = "K" -> WhiteKing
    [] ch = "p" -> BlackPawn [] ch = "n" -> BlackKnight [] ch = "b" -> BlackBishop
    [] ch = "r" -> BlackRook [] ch = "q" -> BlackQueen [] ch = "k" -> BlackKing
    [] OTHER -> None

\* Board::from_fen, the loop over the characters from position i on.
\* sq_counter is a usize: sq_counter -= 16 below 16 panics where overflow is
\* checked and wraps where it is not; a negative sq_counter stands for the
\* wrapped value 2^64 + sq_counter, which the later additions wrap back.
RECURSIVE Board_from_fen_loop(_, _, _, _, _)
Board_from_fen_loop(chars, i, b, sq_counter, wraps) ==
  IF i > Len(chars) THEN [res |-> "Ok", board |-> b]
  ELSE LET ch == chars[i]
       IN  IF ch = "/"
           THEN IF sq_counter < 16 /\ ~wraps THEN [res |-> "Panic", board |-> b]
                ELSE Board_from_fen_loop(chars, i + 1, b, sq_counter - 16, wraps)
           ELSE IF to_digit(ch) # None
                THEN Board_from_fen_loop(chars, i + 1, b, sq_counter + to_digit(ch), wraps)
                ELSE IF Piece_try_from(ch) = None \/ sq_counter \notin SQUARES
                     THEN [res |-> "FENParsingError", board |-> b]
                     ELSE Board_from_fen_loop(chars, i + 1,
                            add_piece(b, Piece_try_from(ch), sq_counter).board,
                            sq_counter + 1, wraps)

\* Board::from_fen
Board_from_fen(chars, wraps) == Board_from_fen_loop(chars, 1, EmptyBoard, 56, wraps)

\* TryFrom<char> for CastlingRight
CastlingRight_try_from(ch) ==
  CASE ch = "K" -> CR_WhiteKing [] ch = "Q" -> CR_WhiteQueen
    [] ch = "k" -> CR_BlackKing [] ch = "q" -> CR_BlackQueen [] OTHER -> None

\* CastlingRights::from_fen
RECURSIVE CastlingRights_from_fen_loop(_, _, _)
CastlingRights_from_fen_loop(chars, i, rights) ==
  IF i > Len(chars) THEN [res |-> "Ok", rights |-> rights]
  ELSE IF CastlingRight_try_from(chars[i]) = None
       THEN [res |-> "FENParsingError", rights |-> rights]
       ELSE CastlingRights_from_fen_loop(chars, i + 1,
              BitOr(rights, CastlingRight_try_from(chars[i])))

CastlingRights_from_fen(chars) ==
  IF chars = << "-" >> THEN [res |-> "Ok", rights |-> 0]
  ELSE CastlingRights_from_fen_loop(chars, 1, 0)

\* TryFrom<char> for File
File_try_from(ch) ==
  CASE ch = "a" -> 0 [] ch = "b" -> 1 [] ch = "c" -> 2 [] ch = "d" -> 3
    [] ch = "e" -> 4 [] ch = "f" -> 5 [] ch = "g" -> 6 [] ch = "h" -> 7
    [] OTHER -> None

\* TryFrom<char> for Rank: digit -= 1 on a u32, then RANKS[digit] unless digit > 8
Rank_try_from(ch, wraps) ==
  IF to_digit(ch) = None THEN [res |-> "InvalidCharError", rank |-> None]
  ELSE IF to_digit(ch) = 0
       THEN IF wraps THEN [res |-> "InvalidCharError", rank |-> None]
            ELSE [res |-> "Panic", rank |-> None]
       ELSE IF to_digit(ch) - 1 > 8 THEN [res |-> "InvalidCharError", rank |-> None]
            ELSE IF to_digit(ch) - 1 > 7 THEN [res |-> "Panic", rank |-> None]
                 ELSE [res |-> "Ok", rank |-> to_digit(ch)]

\* Square::from_fen
Square_from_fen(chars, wraps) ==
  IF chars = << "-" >> THEN [res |-> "Ok", sq |-> None]
  ELSE IF Len(chars) # 2 THEN [res |-> "InvalidCharError", sq |-> None]
       ELSE IF File_try_from(chars[1]) = None THEN [res |-> "InvalidCharError", sq |-> None]
            ELSE LET r == Rank_try_from(chars[2], wraps)
                 IN  IF r.res # "Ok" THEN [res |-> r.res, sq |-> None]
                     ELSE [res |-> "Ok", sq |-> Sq(File_try_from(chars[1]), r.rank)]

\* Position::from_fields on the first four of the fields, as GameState::from_fen
\* calls it; fen is the sequence of the space-separated fields
GameState_from_fen(fen, wraps) ==
  IF Len(fen) # 6 THEN Ret("FENParsingError", GameState_default)
  ELSE LET b == Board_from_fen(fen[1], wraps)
           cr == CastlingRights_from_fen(fen[3])
           ep == Square_from_fen(fen[4], wraps)
           stm == IF fen[2] = << "b" >> THEN Black ELSE White
       IN  IF b.res # "Ok" THEN Ret(b.res, GameState_default)
           ELSE IF cr.res # "Ok" THEN Ret(cr.res, GameState_default)
           ELSE IF ep.res # "Ok"
                THEN Ret(IF ep.res = "Panic" THEN "Panic" ELSE "FENParsingError",
                         GameState_default)
                ELSE Ret("Ok", GameStateOf(b.board, stm, cr.rights, ep.sq))

(***************************************************************************)
(* play/key.rs: PositionKeyGenerator                                       *)
(***************************************************************************)
\* PositionKeyGenerator::hash_board, the loop over SQUARES from sq on
RECURSIVE hash_board_pieces(_, _, _)
hash_board_pieces(b, sq, key) ==
  IF sq > 63 THEN key
  ELSE hash_board_pieces(b, sq + 1,
         IF piece(b, sq) # None
         THEN Xor(key, { << "piece_hashes", piece(b, sq), sq >> })
         ELSE key)

\* PositionKeyGenerator::hash_board
hash_board(s) ==
  LET k1 == hash_board_pieces(s.board, 0, ZeroKey)
      k2 == Xor(k1, { << "castling_permission_hashes", s.castling_permissions >> })
      k3 == IF s.en_passant # None
            THEN Xor(k2, { << "en_passant_hashes", s.en_passant >> })
            ELSE k2
  IN  IF s.side_to_move = White THEN Xor(k3, { << "side_to_move_hash" >> }) ELSE k3

(***************************************************************************)
(* perft/mod.rs over board/mod.rs: BoardState and the perft driver          *)
(***************************************************************************)
\* BoardState::legal_moves (board/mod.rs): the same arms as Position::legal_moves
\* without the en-passant and castling branches, for the side to move
BoardState_legal_moves(s) ==
  legal_moves([s EXCEPT !.en_passant = None, !.castling_permissions = 0])

\* BoardState::make_move: todo!()
BoardState_make_move(s, mv) == Ret("Panic", s)

\* perft
RECURSIVE perft(_, _)
RECURSIVE perft_loop(_, _, _, _, _)
perft(s, depth) ==
  IF depth = 0 THEN [res |-> "Ok", nodes |-> 1]
  ELSE perft_loop(s, BoardState_legal_moves(s), 1, depth, 0)

\* perft, the loop over the moves from index i on
perft_loop(s, mvs, i, depth, nodes) ==
  IF i > Len(mvs) THEN [res |-> "Ok", nodes |-> nodes]
  ELSE LET next == BoardState_make_move(s, mvs[i])
       IN  IF next.res # "Ok" THEN [res |-> next.res, nodes |-> nodes]
           ELSE LET sub == perft(next.st, depth - 1)
                IN  IF sub.res # "Ok" THEN [res |-> sub.res, nodes |-> nodes]
                    ELSE perft_loop(s, mvs, i + 1, depth, nodes + sub.nodes)

(***************************************************************************)
(* The positions a run starts from                                         *)
(***************************************************************************)
\* 4k3/8/8/8/8/8/P6P/R3K2R w KQ - 0 1
\* White may castle on both sides
FenCastleWhite ==
  << << "4", "k", "3", "/", "8", "/", "8", "/", "8", "/", "8", "/", "8", "/", "P", "6", "P", "/", "R", "3", "K", "2", "R" >>,
     << "w" >>,
     << "K", "Q" >>,
     << "-" >>,
     << "0" >>,
     << "1" >> >>

\* r3k2r/p6p/8/8/8/8/8/4K3 b kq - 0 1
\* Black may castle on both sides
FenCastleBlack ==
  << << "r", "3", "k", "2", "r", "/", "p", "6", "p", "/", "8", "/", "8", "/", "8", "/", "8", "/", "8", "/", "4", "K", "3" >>,
     << "b" >>,
     << "k", "q" >>,
     << "-" >>,
     << "0" >>,
     << "1" >> >>

\* 8/3k4/8/8/5p2/8/4P3/3K4 w - - 0 1
\* e2e4 lets Black capture en passant on e3
FenEnPassant ==
  << << "8", "/", "3", "k", "4", "/", "8", "/", "8", "/", "5", "p", "2", "/", "8", "/", "4", "P", "3", "/", "3", "K", "4" >>,
     << "w" >>,
     << "-" >>,
     << "-" >>,
     << "0" >>,
     << "1" >> >>

\* 8/6P1/8/8/3k4/8/1K5p/8 b - - 0 1
\* both sides have a pawn one step from promotion
FenPromotion ==
  << << "8", "/", "6", "P", "1", "/", "8", "/", "8", "/", "3", "k", "4", "/", "8", "/", "1", "K", "5", "p", "/", "8" >>,
     << "b" >>,
     << "-" >>,
     << "-" >>,
     << "0" >>,
     << "1" >> >>

\* 4k3/8/8/8/8/4r3/4B3/4K3 w - - 0 1
\* the bishop on e2 is pinned to the king on e1
FenPin ==
  << << "4", "k", "3", "/", "8", "/", "8", "/", "8", "/", "8", "/", "4", "r", "3", "/", "4", "B", "3", "/", "4", "K", "3" >>,
     << "w" >>,
     << "-" >>,
     << "-" >>,
     << "0" >>,
     << "1" >> >>

\* r3k2r/8/8/8/8/8/8/RN2K2R b KQkq - 0 1: both colours hold both rights, the
\* a and h files are open, a knight stands on b1
FenCastleBoth ==
  << << "r", "3", "k", "2", "r", "/", "8", "/", "8", "/", "8", "/", "8", "/", "8", "/", "8", "/", "R", "N", "2", "K", "2", "R" >>,
     << "b" >>,
     << "K", "Q", "k", "q" >>,
     << "-" >>,
     << "0" >>,
     << "1" >> >>

\* 6b1/5P2/7n/8/8/2K5/7p/4k1R1 w - - 0 1, the position of
\* test_make_unmake_move_capture_promotion
FenCapturePromotion ==
  << << "6", "b", "1", "/", "5", "P", "2", "/", "7", "n", "/", "8", "/", "8", "/", "2", "K", "5", "/", "7", "p", "/", "4", "k", "1", "R", "1" >>,
     << "w" >>,
     << "-" >>,
     << "-" >>,
     << "0" >>,
     << "1" >> >>

\* 4k3/8/8/8/8/8/8/q3Kr2 w - - 0 1: the rook on f1 attacks the king on e1,
\* and the queen on a1 stands behind the king on the rook's rank
FenDefendedAttacker ==
  << << "4", "k", "3", "/", "8", "/", "8", "/", "8", "/", "8", "/", "8", "/", "8", "/", "q", "3", "K", "r", "2" >>,
     << "w" >>,
     << "-" >>,
     << "-" >>,
     << "0" >>,
     << "1" >> >>

InitFens ==
  { FenCastleWhite, FenCastleBlack, FenEnPassant, FenPromotion, FenPin,
    FenCastleBoth, FenCapturePromotion, FenDefendedAttacker }

\* The same set, written out element by element
Written(set) == { e : e \in set }

\* The same GameState, each of the twelve bitboards and the key written out
Settled(s) ==
  [s EXCEPT !.board =
              (WhitePawn :> Written(@[WhitePawn]) @@ WhiteKnight :> Written(@[WhiteKnight])
                 @@ WhiteBishop :> Written(@[WhiteBishop]) @@ WhiteRook :> Written(@[WhiteRook])
                 @@ WhiteQueen :> Written(@[WhiteQueen]) @@ WhiteKing :> Written(@[WhiteKing])
                 @@ BlackPawn :> Written(@[BlackPawn]) @@ BlackKnight :> Written(@[BlackKnight])
                 @@ BlackBishop :> Written(@[BlackBishop]) @@ BlackRook :> Written(@[BlackRook])
                 @@ BlackQueen :> Written(@[BlackQueen]) @@ BlackKing :> Written(@[BlackKing])),
            !.position_key = Written(@)]

\* The GameState after make_move of n moves of the line repeated over and
\* over, the first of them the move number done + 1; the play stops at the
\* first call that does not return Ok. The n moves are played as two halves.
RECURSIVE PlayLine(_, _, _, _)
PlayLine(s, line, done, n) ==
  IF n = 0 THEN s
  ELSE IF n = 1
       THEN LET r == make_move(line[(done % Len(line)) + 1], s, FALSE)
            IN  IF r.res = "Ok" THEN Settled(r.st) ELSE s
       ELSE LET half == PlayLine(s, line, done, n \div 2)
            IN  IF Len(half.castling_perms_history)
                     < Len(s.castling_perms_history) + (n \div 2)
                THEN half
                ELSE PlayLine(half, line, done + (n \div 2), n - (n \div 2))

\* The kings of FenEnPassant stepping d1-c1, d7-c7, c1-d1, c7-d7
KingShuffle ==
  << Move_new(D1, C1, None, None, FALSE, FALSE, FALSE),
     Move_new(Sq(3, 7), Sq(2, 7), None, None, FALSE, FALSE, FALSE),
     Move_new(C1, D1, None, None, FALSE, FALSE, FALSE),
     Move_new(Sq(2, 7), Sq(3, 7), None, None, FALSE, FALSE, FALSE) >>

\* The number of calls of make_move behind the long game: the u8 ply and
\* fifty-move counters are one call short of their maximum
LongGamePlies == U8Max - 1

\* A long game: FenEnPassant after LongGamePlies quiet king moves, the state
\* PlayLine gives for KingShuffle. The kings stand on c1 and c7, White is to
\* move, and each call has pushed the counter it left and the rights it found.
LongGame ==
  LET s == GameState_from_fen(FenEnPassant, FALSE).st
  IN  [s EXCEPT !.board = [@ EXCEPT ![WhiteKing] = { C1 }, ![BlackKing] = { Sq(2, 7) }],
                !.ply = LongGamePlies,
                !.fifty_move_counter = LongGamePlies,
                !.fifty_move_country_hist = [i \in 1 .. LongGamePlies |-> i],
                !.castling_perms_history =
                   [i \in 1 .. LongGamePlies |-> s.castling_permissions]]

\* The opening line e2e4 e7e5 g1f3 b8c6 f1b5
OpeningLine ==
  << Move_new(Sq(4, 2), Sq(4, 4), None, None, FALSE, TRUE, FALSE),
     Move_new(Sq(4, 7), Sq(4, 5), None, None, FALSE, TRUE, FALSE),
     Move_new(G1, Sq(5, 3), None, None, FALSE, FALSE, FALSE),
     Move_new(Sq(1, 8), Sq(2, 6), None, None, FALSE, FALSE, FALSE),
     Move_new(F1, Sq(1, 5), None, None, FALSE, FALSE, FALSE) >>

\* GameState::default() after the five moves of the line
AfterOpeningLine == PlayLine(GameState_default, OpeningLine, 0, Len(OpeningLine))

\* GameState::default(), GameState::from_fen(fen).unwrap(), and states that
\* calls of make_move lead to from these
InitStates ==
  { GameState_default, LongGame }
    \cup { GameState_from_fen(f, FALSE).st : f \in InitFens }

(***************************************************************************)
(* The state machine: a caller that makes moves emitted by legal_moves and *)
(* unmakes them in reverse order, as the perft recursion does              *)
(***************************************************************************)
VARIABLES
  state,      \* the GameState
  made,       \* the caller's moves made and not yet unmade, each with the
              \* GameState it was made from and the GameState it led to
  last,       \* the last call: its name, result, move (for a call on the
              \* Board its arguments and the piece it returns), the GameState before
              \* it and, for unmake_move, the GameState before the matching
              \* make_move and whether the call directly follows that make_move
  nops,       \* number of calls so far
  perft_out   \* the last perft run: depth and result

vars == << state, made, last, nops, perft_out >>

NoPerft == [depth |-> None, res |-> "None", nodes |-> 0]

\* The record of a call
Call(op, res, mv, pre, expect, direct) ==
  [op |-> op, res |-> res, mv |-> mv, pre |-> pre, expect |-> expect, direct |-> direct]

Init ==
  /\ state \in InitStates
  /\ made = << >>
  /\ last = Call("init", "Ok", 0, state, state, FALSE)
  /\ nops = 0
  /\ perft_out = NoPerft

\* The builds the arithmetic of a call can tell apart: a checked build aborts
\* on u8 overflow, an unchecked build wraps. A GameState whose ply is not the
\* depth of its history has wrapped already: its build is an unchecked one.
Builds(s) ==
  IF s.ply # Len(s.castling_perms_history) THEN { TRUE }
  ELSE IF s.ply \in { 0, U8Max } \/ s.fifty_move_counter = U8Max THEN BOOLEAN
  ELSE { FALSE }

\* The moves of a MoveList
Emitted(moves) == { moves[i] : i \in 1 .. Len(moves) }

\* The caller makes a move emitted by legal_moves
MakeMove ==
  /\ last.res = "Ok"
  /\ perft_out = NoPerft
  /\ nops < MaxOps
  /\ \E mv \in Emitted(legal_moves(state)) : \E wraps \in Builds(state) :
       LET r == make_move(mv, state, wraps)
       IN  /\ state' = r.st
           /\ made' = Append(made, [mv |-> mv, pre |-> state, post |-> r.st])
           /\ last' = Call("make_move", r.res, mv, state, state, FALSE)
  /\ nops' = nops + 1
  /\ UNCHANGED perft_out

\* The caller unmakes its last move
UnmakeMove ==
  /\ last.res = "Ok"
  /\ perft_out = NoPerft
  /\ nops < MaxOps
  /\ made # << >>
  /\ LET top == made[Len(made)]
     IN  \E wraps \in Builds(state) :
           LET r == unmake_move(top.mv, state, wraps)
           IN  /\ state' = r.st
               /\ made' = SubSeq(made, 1, Len(made) - 1)
               /\ last' = Call("unmake_move", r.res, top.mv, state, top.pre,
                               state = top.post)
  /\ nops' = nops + 1
  /\ UNCHANGED perft_out

Next == MakeMove \/ UnmakeMove

Spec == Init /\ [][Next]_vars

(***************************************************************************)
(* Properties of make_move and unmake_move on moves emitted by legal_moves *)
(***************************************************************************)
\* The last call was an unmake_move that directly followed its make_move
UnmadeDirectly == last.op = "unmake_move" /\ last.direct

\* The four castling bits
CastlingBits == { CR_WhiteKing, CR_WhiteQueen, CR_BlackKing, CR_BlackQueen }

\* C1: for a move m emitted by legal_moves from P, make_move(m) followed by
\* unmake_move(m) returns the whole game state to P: the 12 bitboards, side
\* to move, en-passant square, castling rights, fifty-move counter, ply,
\* position key and the depth of both history stacks.
C1_MakeUnmakeRestoresState ==
  UnmadeDirectly =>
    /\ last.res = "Ok"
    /\ state.board = last.expect.board
    /\ state.side_to_move = last.expect.side_to_move
    /\ state.en_passant = last.expect.en_passant
    /\ state.castling_permissions = last.expect.castling_permissions
    /\ state.fifty_move_counter = last.expect.fifty_move_counter
    /\ state.ply = last.expect.ply
    /\ state.history_ply = last.expect.history_ply
    /\ state.position_key = last.expect.position_key
    /\ Len(state.castling_perms_history) = Len(last.expect.castling_perms_history)
    /\ Len(state.fifty_move_country_hist) = Len(last.expect.fifty_move_country_hist)

\* C2: in a position with one king per colour, after make_move of a move
\* emitted by legal_moves the king of the side that just moved is not
\* attacked by the side now to move.
C2_EmittedMovesAreLegal ==
  ( /\ last.op = "make_move"
    /\ last.res = "Ok"
    /\ Cardinality(last.pre.board[WhiteKing]) = 1
    /\ Cardinality(last.pre.board[BlackKing]) = 1 ) =>
    \A sq \in state.board[IF last.pre.side_to_move = White THEN WhiteKing ELSE BlackKing] :
      ~is_square_attacked(state.board, sq, state.side_to_move)

\* C5: after any sequence of make_move and unmake_move calls the stored
\* position_key equals the key hash_board computes from scratch for the
\* current board, castling rights, en-passant square and side to move.
C5_PositionKeyIsHashOfBoard ==
  (last.op \in { "make_move", "unmake_move" } /\ last.res = "Ok") =>
    state.position_key = hash_board(state)

\* C6: a make_move call never turns a castling bit that is 0 into 1, so
\* along a chain of make_move calls a cleared bit stays cleared.
C6_CastlingBitsOnlyCleared ==
  last.op = "make_move" =>
    \A bit \in CastlingBits :
      BitAnd(last.pre.castling_permissions, bit) = 0 =>
        BitAnd(state.castling_permissions, bit) = 0

\* C6, its case: a castle has been made and has cleared the mover's two bits.
C6_CastleClearedBits ==
  /\ last.op = "make_move"
  /\ last.res = "Ok"
  /\ castle(last.mv)
  /\ last.pre.castling_permissions # 0
  /\ state.castling_permissions = 0

\* C7: the history entry make_move pushes holds the castling rights and the
\* fifty-move counter from before the move, so that unmake_move restores
\* both: the castling rights after making and unmaking a castle, the
\* fifty-move counter after making and unmaking a quiet non-pawn move.
C7_HistoryHoldsPreMoveValues ==
  /\ (last.op = "make_move" /\ last.res = "Ok") =>
       /\ state.castling_perms_history # << >>
       /\ state.castling_perms_history[Len(state.castling_perms_history)]
            = last.pre.castling_permissions
       /\ state.fifty_move_country_hist # << >>
       /\ state.fifty_move_country_hist[Len(state.fifty_move_country_hist)]
            = last.pre.fifty_move_counter
  /\ (UnmadeDirectly /\ last.res = "Ok" /\ castle(last.mv)) =>
       state.castling_permissions = last.expect.castling_permissions
  /\ ( /\ UnmadeDirectly
       /\ last.res = "Ok"
       /\ captured(last.mv) = None
       /\ piece(last.expect.board, from_sq(last.mv)) \notin { WhitePawn, BlackPawn } ) =>
       state.fifty_move_counter = last.expect.fifty_move_counter

\* C8: after make_move(m) followed by unmake_move(m) the en-passant square
\* equals its value before make_move, whether that was None or a square.
C8_UnmakeRestoresEnPassant ==
  (UnmadeDirectly /\ last.res = "Ok") =>
    state.en_passant = last.expect.en_passant

\* C9: unmake_move of a castle puts the king back on e1/e8 and the rook back
\* on its home corner, so the board equals the board before the castle.
C9_UnmakeCastleRestoresBoard ==
  (UnmadeDirectly /\ last.res = "Ok" /\ castle(last.mv)) =>
    state.board = last.expect.board

\* C10: make_move of a rook move from the rook's home corner clears exactly
\* the matching castling bit (h1: WhiteKing, a1: WhiteQueen, h8: BlackKing,
\* a8: BlackQueen) and leaves the other three unchanged; a rook moving back
\* onto the corner does not set the bit again.
C10_RookMoveClearsMatchingBit ==
  \A home \in { << H1, WhiteRook, CR_WhiteKing >>, << A1, WhiteRook, CR_WhiteQueen >>,
                << H8, BlackRook, CR_BlackKing >>, << A8, BlackRook, CR_BlackQueen >> } :
    /\ ( /\ last.op = "make_move"
         /\ last.res = "Ok"
         /\ from_sq(last.mv) = home[1]
         /\ piece(last.pre.board, home[1]) = home[2] ) =>
         state.castling_permissions
           = BitAnd(last.pre.castling_permissions, CastlingRights_all - home[3])
    /\ ( /\ last.op = "make_move"
         /\ last.res = "Ok"
         /\ to_sq(last.mv) = home[1]
         /\ piece(last.pre.board, from_sq(last.mv)) = home[2]
         /\ BitAnd(last.pre.castling_permissions, home[3]) = 0 ) =>
         BitAnd(state.castling_permissions, home[3]) = 0

\* The four castles: the king's destination, the king, the rook's corner, the
\* rook's destination, the rook, the two bits of the castling colour
Castles ==
  { << G1, WhiteKing, H1, F1, WhiteRook, CR_WhiteKing + CR_WhiteQueen >>,
    << C1, WhiteKing, A1, D1, WhiteRook, CR_WhiteKing + CR_WhiteQueen >>,
    << G8, BlackKing, H8, F8, BlackRook, CR_BlackKing + CR_BlackQueen >>,
    << C8, BlackKing, A8, D8, BlackRook, CR_BlackKing + CR_BlackQueen >> }

\* C11: a capture that removes an enemy rook standing on its home corner
\* (a1, h1, a8, h8) clears that rook's castling bit.
C11_RookCaptureClearsBit ==
  \A home \in { << H1, WhiteRook, CR_WhiteKing >>, << A1, WhiteRook, CR_WhiteQueen >>,
                << H8, BlackRook, CR_BlackKing >>, << A8, BlackRook, CR_BlackQueen >> } :
    ( /\ last.op = "make_move"
      /\ last.res = "Ok"
      /\ to_sq(last.mv) = home[1]
      /\ captured(last.mv) = home[2]
      /\ piece(last.pre.board, home[1]) = home[2] ) =>
      BitAnd(state.castling_permissions, home[3]) = 0

HistoryDepth(s) ==
  IF Len(s.fifty_move_country_hist) = Len(s.castling_perms_history)
  THEN Len(s.castling_perms_history)
  ELSE None

\* C13: after any sequence of successful make_move and unmake_move calls on
\* a freshly constructed state, the fifty-move history and the castling-rights
\* history have the same length, and that length and ply both equal the
\* number of make_move calls minus the number of unmake_move calls: a
\* constructed state has them at 0, the long game at the number of its moves,
\* each successful make_move adds one to them and each successful unmake_move
\* takes one off.
C13_HistoryDepthAndPlyCountMoves ==
  /\ last.res = "Ok" => HistoryDepth(state) = state.ply
  /\ ( last.op = "init" /\ state # LongGame ) => state.ply = 0
  /\ ( last.op = "init" /\ state = LongGame ) => state.ply = LongGamePlies
  /\ ( last.op = "make_move" /\ last.res = "Ok" ) =>
       /\ HistoryDepth(state) = HistoryDepth(last.pre) + 1
       /\ state.ply = last.pre.ply + 1
  /\ ( last.op = "unmake_move" /\ last.res = "Ok" ) =>
       /\ HistoryDepth(state) = HistoryDepth(last.pre) - 1
       /\ state.ply = last.pre.ply - 1

\* The square one push step behind sq for a pawn of the colour
Behind(sq, mover) == IF mover = White THEN sq - 8 ELSE sq + 8

\* C14: after make_move the en-passant square is set if and only if the move
\* carries the double-push flag, and is then the square one push step behind
\* the move's to square; every move without the flag leaves it None.
C14_EnPassantSetByDoublePush ==
  ( last.op = "make_move" /\ last.res = "Ok" ) =>
    /\ state.en_passant # None <=> pawn_start(last.mv)
    /\ pawn_start(last.mv) =>
         state.en_passant = Behind(to_sq(last.mv), last.pre.side_to_move)
    /\ ~pawn_start(last.mv) => state.en_passant = None

\* C14, its case: Black has answered a double push with a double push, and
\* the en-passant square has moved behind Black's pawn.
C14_BlackDoublePushMade ==
  /\ last.op = "make_move"
  /\ last.res = "Ok"
  /\ pawn_start(last.mv)
  /\ last.pre.side_to_move = Black
  /\ last.pre.en_passant # None
  /\ state.en_passant = to_sq(last.mv) + 8
  /\ piece(state.board, to_sq(last.mv)) = BlackPawn

\* The pawn of a colour
PawnOf(c) == IF c = White THEN WhitePawn ELSE BlackPawn

\* In the GameState s the move mv is an en-passant capture as the game has
\* it: the mover's pawn on from, nothing on to, and the opposing pawn one push
\* step behind to
IsEnPassantCapture(mv, s) ==
  /\ en_passant(mv)
  /\ piece(s.board, from_sq(mv)) = PawnOf(s.side_to_move)
  /\ piece(s.board, to_sq(mv)) = None
  /\ piece(s.board, Behind(to_sq(mv), s.side_to_move)) = PawnOf(opposing(s.side_to_move))

\* C15: make_move of an en-passant capture removes the opposing pawn from the
\* square one push step behind the move's to square (not from to) and puts
\* the capturing pawn on to; unmake_move puts the captured pawn back on that
\* square, the capturing pawn back on from, and leaves to empty.
C15_EnPassantCaptureMadeAndUnmade ==
  /\ ( /\ last.op = "make_move"
       /\ last.res = "Ok"
       /\ IsEnPassantCapture(last.mv, last.pre) ) =>
       /\ piece(state.board, Behind(to_sq(last.mv), last.pre.side_to_move)) = None
       /\ piece(state.board, to_sq(last.mv)) = PawnOf(last.pre.side_to_move)
       /\ piece(state.board, from_sq(last.mv)) = None
  /\ ( /\ UnmadeDirectly
       /\ IsEnPassantCapture(last.mv, last.expect) ) =>
       /\ last.res = "Ok"
       /\ piece(state.board, Behind(to_sq(last.mv), last.expect.side_to_move))
            = PawnOf(opposing(last.expect.side_to_move))
       /\ piece(state.board, from_sq(last.mv)) = PawnOf(last.expect.side_to_move)
       /\ piece(state.board, to_sq(last.mv)) = None

\* C15, its case: Black's en-passant capture of a White pawn has been made
\* and unmade, and the White pawn is back behind the en-passant square.
C15_EnPassantCaptureUnmade ==
  /\ UnmadeDirectly
  /\ last.res = "Ok"
  /\ IsEnPassantCapture(last.mv, last.expect)
  /\ last.expect.side_to_move = Black
  /\ piece(last.pre.board, to_sq(last.mv)) = BlackPawn
  /\ piece(last.pre.board, to_sq(last.mv) + 8) = None
  /\ piece(state.board, to_sq(last.mv) + 8) = WhitePawn

\* C16: make_move of a move with a promoted-to piece leaves the promoted
\* piece on the move's to square; unmake_move removes it and restores a pawn
\* of the mover's colour on from, and for a capture-promotion restores the
\* captured piece on to.
C16_PromotionMadeAndUnmade ==
  /\ ( /\ last.op = "make_move"
       /\ last.res = "Ok"
       /\ promoted(last.mv) # None ) =>
       /\ piece(state.board, to_sq(last.mv)) = promoted(last.mv)
       /\ piece(state.board, from_sq(last.mv)) = None
  /\ ( /\ UnmadeDirectly
       /\ promoted(last.mv) # None ) =>
       /\ last.res = "Ok"
       /\ piece(state.board, from_sq(last.mv)) = PawnOf(last.expect.side_to_move)
       /\ piece(state.board, to_sq(last.mv)) = captured(last.mv)

\* C16, its case: a capture-promotion has been made and unmade, the pawn is
\* back on from and the captured piece back on to, where the promoted piece
\* stood.
C16_CapturePromotionUnmade ==
  /\ UnmadeDirectly
  /\ last.res = "Ok"
  /\ promoted(last.mv) # None
  /\ captured(last.mv) # None
  /\ piece(last.pre.board, to_sq(last.mv)) = promoted(last.mv)
  /\ piece(state.board, to_sq(last.mv)) = captured(last.mv)
  /\ piece(state.board, from_sq(last.mv)) = PawnOf(state.side_to_move)

\* C17: make_move resets the fifty-move counter to 0 on a pawn move or a
\* capture and otherwise increases it by exactly 1; after e2e4, e7e5, g1f3,
\* b8c6, f1b5 from the start position the counter is 3, the castling rights
\* are 1111 and the en-passant square is None.
C17_FiftyMoveCounter ==
  /\ ( last.op = "make_move" /\ last.res = "Ok" ) =>
       IF \/ captured(last.mv) # None
          \/ piece(last.pre.board, from_sq(last.mv)) \in { WhitePawn, BlackPawn }
       THEN state.fifty_move_counter = 0
       ELSE state.fifty_move_counter = last.pre.fifty_move_counter + 1
  /\ AfterOpeningLine.ply = Len(OpeningLine)
  /\ AfterOpeningLine.fifty_move_counter = 3
  /\ AfterOpeningLine.castling_permissions = CastlingRights_all
  /\ AfterOpeningLine.en_passant = None

\* The king of the side to move stands on a square that is_square_attacked
\* reports as attacked by the other side
InCheck(s) ==
  \E sq \in s.board[IF s.side_to_move = White THEN WhiteKing ELSE BlackKing] :
    is_square_attacked(s.board, sq, opposing(s.side_to_move))

\* C18: legal_moves emits no castle move when the side to move's king is in
\* check. The caller makes only moves that legal_moves has emitted from the
\* state before the call.
C18_NoCastleOutOfCheck ==
  ( last.op = "make_move" /\ castle(last.mv) ) => ~InCheck(last.pre)

\* The lanes of the four castles: the king's destination, the colour, the
\* right, the squares between king and rook, the squares the king traverses
CastleLanes ==
  { << G1, White, CR_WhiteKing, { F1, G1 }, { F1, G1 } >>,
    << C1, White, CR_WhiteQueen, { Sq(1, 1), C1, D1 }, { D1, C1 } >>,
    << G8, Black, CR_BlackKing, { F8, G8 }, { F8, G8 } >>,
    << C8, Black, CR_BlackQueen, { Sq(1, 8), C8, D8 }, { D8, C8 } >> }

\* C19: legal_moves emits a castle move only if the matching castling-right
\* bit is set, every square between king and rook is empty (f1 and g1
\* kingside; b1, c1 and d1 queenside; the same files on rank 8 for Black) and
\* neither square the king traverses is attacked.
C19_CastleOnlyThroughEmptySafeLane ==
  ( last.op = "make_move" /\ castle(last.mv) ) =>
    \E lane \in CastleLanes :
      /\ to_sq(last.mv) = lane[1]
      /\ last.pre.side_to_move = lane[2]
      /\ BitAnd(last.pre.castling_permissions, lane[3]) # 0
      /\ \A sq \in lane[4] : ~sq_taken(last.pre.board, sq)
      /\ \A sq \in lane[5] :
           ~is_square_attacked(last.pre.board, sq, opposing(lane[2]))

\* C20: an emitted pawn move carries a promoted-to piece if and only if the
\* pawn moves from its promotion rank (rank 7 for White, rank 2 for Black),
\* and that piece is of the mover's colour; this holds for pushes and for
\* both capture diagonals, and for both colours. The caller makes only moves
\* that legal_moves has emitted from the state before the call.
C20_PromotionFromPromotionRank ==
  ( /\ last.op = "make_move"
    /\ piece(last.pre.board, from_sq(last.mv)) = PawnOf(last.pre.side_to_move) ) =>
    /\ promoted(last.mv) # None
         <=> rank(from_sq(last.mv)) = (IF last.pre.side_to_move = White THEN 7 ELSE 2)
    /\ promoted(last.mv) # None => color(promoted(last.mv)) = last.pre.side_to_move

\* No pawn of either colour stands on rank 1 or rank 8 of the board
NoPawnOnLastRanks(b) ==
  \A sq \in b[WhitePawn] \cup b[BlackPawn] : rank(sq) \notin { 1, 8 }

\* C21: starting from any position with no pawn on rank 1 or rank 8, every
\* state reached by make_move of moves emitted by legal_moves has no pawn on
\* rank 1 or rank 8.
C21_NoPawnOnLastRanks ==
  ( /\ last.op = "make_move"
    /\ last.res = "Ok"
    /\ NoPawnOnLastRanks(last.pre.board) ) =>
    NoPawnOnLastRanks(state.board)

Abs(x) == IF x < 0 THEN -x ELSE x

Sign(x) == IF x < 0 THEN -1 ELSE IF x > 0 THEN 1 ELSE 0

\* Every square strictly between two squares of one rank, file or diagonal is
\* empty
BetweenEmpty(b, from, to) ==
  LET df == file(to) - file(from)
      dr == rank(to) - rank(from)
      n == IF Abs(df) > Abs(dr) THEN Abs(df) ELSE Abs(dr)
  IN  \A k \in 1 .. (n - 1) :
        ~sq_taken(b, Sq(file(from) + k * Sign(df), rank(from) + k * Sign(dr)))

\* By its movement rules the piece pc on from could capture onto to: a pawn
\* one rank ahead on an adjacent file, a knight one leap away, a king one
\* step away, a bishop, rook or queen along its ray over empty squares
CapturesOnto(b, pc, from, to) ==
  LET df == Abs(file(to) - file(from))
      dr == rank(to) - rank(from)
  IN  /\ from # to
      /\ CASE pc = WhitePawn -> df = 1 /\ dr = 1
            [] pc = BlackPawn -> df = 1 /\ dr = -1
            [] pc \in { WhiteKnight, BlackKnight } -> { df, Abs(dr) } = { 1, 2 }
            [] pc \in { WhiteKing, BlackKing } -> df <= 1 /\ Abs(dr) <= 1
            [] pc \in { WhiteBishop, BlackBishop } ->
                 df = Abs(dr) /\ BetweenEmpty(b, from, to)
            [] pc \in { WhiteRook, BlackRook } ->
                 ( df = 0 \/ dr = 0 ) /\ BetweenEmpty(b, from, to)
            [] OTHER ->
                 ( df = 0 \/ dr = 0 \/ df = Abs(dr) ) /\ BetweenEmpty(b, from, to)

\* Some piece of the colour could capture onto sq by its movement rules
Attacked(b, sq, by) ==
  \E pc \in PIECES : /\ color(pc) = by
                      /\ \E from \in b[pc] : CapturesOnto(b, pc, from, sq)

\* Each colour has exactly one king on the board
OneKingEach(b) == Cardinality(b[WhiteKing]) = 1 /\ Cardinality(b[BlackKing]) = 1

\* The king of the side not to move stands on a square the side to move
\* could capture onto
OpponentInCheck(s) ==
  \E sq \in s.board[IF s.side_to_move = White THEN BlackKing ELSE WhiteKing] :
    Attacked(s.board, sq, s.side_to_move)

\* C22: starting from any position in which each colour has exactly one king
\* and the side not to move is not in check, every state reached by make_move
\* of moves emitted by legal_moves still has exactly one king of each colour:
\* no emitted move captures a king. While the caller has only made moves, the
\* first of them was made from the starting position.
C22_NoKingCaptured ==
  ( /\ made # << >>
    /\ nops = Len(made)
    /\ last.res = "Ok"
    /\ OneKingEach(made[1].pre.board)
    /\ ~OpponentInCheck(made[1].pre) ) =>
    /\ OneKingEach(state.board)
    /\ captured(last.mv) \notin { WhiteKing, BlackKing }

\* C23: legal_moves emits a king capture of an enemy piece only when that
\* piece's square is not defended, i.e. no other enemy piece attacks that
\* square once the king stands on it. The caller makes only moves that
\* legal_moves has emitted; after make_move the king stands on the square.
C23_KingCapturesUndefendedOnly ==
  ( /\ last.op = "make_move"
    /\ last.res = "Ok"
    /\ captured(last.mv) # None
    /\ piece(last.pre.board, from_sq(last.mv))
         = (IF last.pre.side_to_move = White THEN WhiteKing ELSE BlackKing) ) =>
    ~Attacked(state.board, to_sq(last.mv), opposing(last.pre.side_to_move))


\* C31: legal_moves emits its moves grouped by piece kind in the order pawns,
\* knights, bishops, rooks, queens, king, and within one piece kind in
\* non-decreasing order of the from square; the kind of a move is that of
\* the piece of the side to move on its from square.
C31_MovesOrderedByKindAndSquare ==
  LET moves == legal_moves(state)
      Kind(mv) == LET pc == piece(state.board, from_sq(mv))
                  IN  IF pc = None \/ color(pc) # state.side_to_move THEN None
                      ELSE pc % 6
  IN  \A i \in 1 .. Len(moves) : \A j \in 1 .. Len(moves) :
        i < j =>
          /\ Kind(moves[i]) # None
          /\ Kind(moves[j]) # None
          /\ Kind(moves[i]) <= Kind(moves[j])
          /\ Kind(moves[i]) = Kind(moves[j]) => from_sq(moves[i]) <= from_sq(moves[j])

\* C32: for every pawn move that reaches the last rank (push or capture),
\* legal_moves emits four moves with its from and to squares, one for each
\* promotion piece Queen, Rook, Bishop and Knight of the mover's colour.
C32_FourPromotionChoices ==
  LET moves == Emitted(legal_moves(state))
      mover == state.side_to_move
      choices == IF mover = White
                 THEN { WhiteQueen, WhiteRook, WhiteBishop, WhiteKnight }
                 ELSE { BlackQueen, BlackRook, BlackBishop, BlackKnight }
  IN  \A mv \in moves :
        ( /\ from_sq(mv) \in state.board[PawnOf(mover)]
          /\ rank(to_sq(mv)) = (IF mover = White THEN 8 ELSE 1) ) =>
            \A pc \in choices :
              \E other \in moves : /\ from_sq(other) = from_sq(mv)
                                   /\ to_sq(other) = to_sq(mv)
                                   /\ promoted(other) = pc

\* C37: from a position in which every set castling bit has the king and the
\* rook of that side on their home squares, make_move of a move emitted by
\* legal_moves leads to a position in which that is so again: a set
\* castling-right bit implies that the king and the rook it names stand on
\* their home squares.
C37_CastlingBitImpliesHomeSquares ==
  LET homes == { << CR_WhiteKing, WhiteKing, E1, WhiteRook, H1 >>,
                 << CR_WhiteQueen, WhiteKing, E1, WhiteRook, A1 >>,
                 << CR_BlackKing, BlackKing, E8, BlackRook, H8 >>,
                 << CR_BlackQueen, BlackKing, E8, BlackRook, A8 >> }
      AtHome(s) == \A h \in homes :
                     BitAnd(s.castling_permissions, h[1]) # 0 =>
                       h[3] \in s.board[h[2]] /\ h[5] \in s.board[h[4]]
  IN  ( last.op = "make_move" /\ last.res = "Ok" /\ AtHome(last.pre) ) =>
        AtHome(state)

\* C38: from a position whose set castling bits have king and rook on their
\* home squares and whose en-passant square, if any, lies behind a pawn of
\* the side that just moved that has just double-pushed, every make_move of a
\* move emitted by legal_moves returns Ok and does not abort, after any
\* number of such make_move calls.
C38_MakeMoveOfEmittedMoveIsOk ==
  LET homes == { << CR_WhiteKing, WhiteKing, E1, WhiteRook, H1 >>,
                 << CR_WhiteQueen, WhiteKing, E1, WhiteRook, A1 >>,
                 << CR_BlackKing, BlackKing, E8, BlackRook, H8 >>,
                 << CR_BlackQueen, BlackKing, E8, BlackRook, A8 >> }
      start == made[1].pre
      step == IF start.side_to_move = White THEN 8 ELSE -8
      ep == start.en_passant
      Consistent ==
        /\ \A h \in homes :
             BitAnd(start.castling_permissions, h[1]) # 0 =>
               h[3] \in start.board[h[2]] /\ h[5] \in start.board[h[4]]
        /\ ep # None =>
             /\ rank(ep) = (IF start.side_to_move = White THEN 6 ELSE 3)
             /\ ~sq_taken(start.board, ep)
             /\ ~sq_taken(start.board, ep + step)
             /\ (ep - step) \in start.board[IF start.side_to_move = White
                                            THEN BlackPawn ELSE WhitePawn]
      Chain == \A i \in 1 .. Len(made) - 1 :
                 made[i].post = made[i + 1].pre /\ made[i].post # made[i].pre
  IN  ( last.op = "make_move" /\ Consistent /\ Chain ) => last.res = "Ok"

\* C40: the 8-bit ply and fifty-move counters never overflow: a make_move
\* called when 255 plies have been made, or after 255 consecutive moves that
\* were neither pawn moves nor captures, succeeds, and it leaves the ply one
\* higher and the fifty-move counter one higher or, on a pawn move or a
\* capture, at 0.
C40_CountersNeverOverflow ==
  ( /\ last.op = "make_move"
    /\ last.pre.ply = U8Max \/ last.pre.fifty_move_counter = U8Max ) =>
      /\ last.res = "Ok"
      /\ state.ply = last.pre.ply + 1
      /\ state.fifty_move_counter \in { 0, last.pre.fifty_move_counter + 1 }

(***************************************************************************)
(* The perft driver run on a reached position                              *)
(***************************************************************************)
\* perft(state, depth) for a depth up to MaxDepth
RunPerft ==
  /\ last.res = "Ok"
  /\ perft_out = NoPerft
  /\ \E depth \in 0 .. MaxDepth :
       LET r == perft(state, depth)
       IN  perft_out' = [depth |-> depth, res |-> r.res, nodes |-> r.nodes]
  /\ UNCHANGED << state, made, last, nops >>

\* A move made on the way to the position perft is run on
PerftMove ==
  /\ nops < MaxPerftOps
  /\ MakeMove

NextPerft == PerftMove \/ RunPerft

SpecPerft == Init /\ [][NextPerft]_vars

\* C3: perft(pos, 0) is 1; perft(pos, d) for d > 0 is the sum over the legal
\* moves of pos of perft on the position after the move, which at depth 1 is
\* the number of legal moves; from the start position perft is 20 at depth 1,
\* 400 at depth 2, 8902 at depth 3 and 197281 at depth 4.
C3_PerftCounts ==
  perft_out.depth # None =>
    /\ perft_out.res = "Ok"
    /\ perft_out.depth = 0 => perft_out.nodes = 1
    /\ perft_out.depth = 1 => perft_out.nodes = Len(BoardState_legal_moves(state))
    /\ state = GameState_default =>
         /\ perft_out.depth = 1 => perft_out.nodes = 20
         /\ perft_out.depth = 2 => perft_out.nodes = 400
         /\ perft_out.depth = 3 => perft_out.nodes = 8902
         /\ perft_out.depth = 4 => perft_out.nodes = 197281

(***************************************************************************)
(* A caller of the Board and move functions with arguments of its own      *)
(* choice, from an empty or the default board                              *)
(***************************************************************************)
\* 8/8/8/8/8/8/8/8 w - - 0 1
FenEmptyWhite ==
  << << "8", "/", "8", "/", "8", "/", "8", "/", "8", "/", "8", "/", "8", "/", "8" >>,
     << "w" >>,
     << "-" >>,
     << "-" >>,
     << "0" >>,
     << "1" >> >>

\* 8/8/8/8/8/8/8/8 b - - 0 1
FenEmptyBlack ==
  << << "8", "/", "8", "/", "8", "/", "8", "/", "8", "/", "8", "/", "8", "/", "8" >>,
     << "b" >>,
     << "-" >>,
     << "-" >>,
     << "0" >>,
     << "1" >> >>

\* The squares, pieces and moves the caller passes
BoardSquares == { E1, F1, G1, H1 }

BoardPieces == { WhiteKing, WhiteRook, BlackPawn }

BoardMoves ==
  { Move_new(E1, G1, None, None, FALSE, FALSE, TRUE),          \* a castle
    Move_new(H1, G1, BlackPawn, None, FALSE, FALSE, FALSE),    \* a capture
    Move_new(F1, E1, None, BlackQueen, FALSE, FALSE, FALSE),   \* a promotion
    Move_new(G1, F1, None, None, FALSE, TRUE, FALSE),          \* a pawn start
    Move_new(E1, F1, BlackPawn, None, TRUE, FALSE, FALSE) }    \* an en-passant capture

InitBoard ==
  /\ state \in { GameState_default,
                 GameState_from_fen(FenEmptyWhite, FALSE).st,
                 GameState_from_fen(FenEmptyBlack, FALSE).st }
  /\ made = << >>
  /\ last = Call("init", "Ok", 0, state, state, FALSE)
  /\ nops = 0
  /\ perft_out = NoPerft

\* A call can follow any call that returned, with Ok or with an error
Returned ==
  /\ last.res # "Panic"
  /\ perft_out = NoPerft
  /\ nops < MaxBoardOps

\* Board::add_piece
AddPiece ==
  /\ Returned
  /\ \E pc \in BoardPieces : \E sq \in BoardSquares :
       LET r == add_piece(state.board, pc, sq)
       IN  /\ state' = [state EXCEPT !.board = r.board]
           /\ last' = Call("add_piece", r.res, [piece |-> pc, sq |-> sq],
                            state, state, FALSE)
  /\ nops' = nops + 1
  /\ UNCHANGED << made, perft_out >>

\* Board::remove_piece
RemovePiece ==
  /\ Returned
  /\ \E sq \in BoardSquares :
       LET r == remove_piece(state.board, sq)
       IN  /\ state' = [state EXCEPT !.board = r.board]
           /\ last' = Call("remove_piece", r.res, [sq |-> sq, piece |-> r.piece],
                            state, state, FALSE)
  /\ nops' = nops + 1
  /\ UNCHANGED << made, perft_out >>

\* Board::move_piece
MovePiece ==
  /\ Returned
  /\ \E origin \in BoardSquares : \E dest \in BoardSquares :
       LET r == move_piece(state.board, origin, dest)
       IN  /\ state' = [state EXCEPT !.board = r.board]
           /\ last' = Call("move_piece", r.res, [origin |-> origin, dest |-> dest],
                            state, state, FALSE)
  /\ nops' = nops + 1
  /\ UNCHANGED << made, perft_out >>

\* make_move with any move
MakeAnyMove ==
  /\ Returned
  /\ \E mv \in BoardMoves : \E wraps \in Builds(state) :
       LET r == make_move(mv, state, wraps)
       IN  /\ state' = r.st
           /\ last' = Call("make_move", r.res, mv, state, state, FALSE)
  /\ nops' = nops + 1
  /\ UNCHANGED << made, perft_out >>

\* unmake_move with any move
UnmakeAnyMove ==
  /\ Returned
  /\ \E mv \in BoardMoves : \E wraps \in Builds(state) :
       LET r == unmake_move(mv, state, wraps)
       IN  /\ state' = r.st
           /\ last' = Call("unmake_move", r.res, mv, state, state, FALSE)
  /\ nops' = nops + 1
  /\ UNCHANGED << made, perft_out >>

NextBoard == AddPiece \/ RemovePiece \/ MovePiece \/ MakeAnyMove \/ UnmakeAnyMove

SpecBoard == InitBoard /\ [][NextBoard]_vars

\* C4: in every state reached from an empty or the default board by
\* add_piece, remove_piece, move_piece, make_move and unmake_move calls,
\* whether they succeed or return an error, the 12 bitboards are pairwise
\* disjoint.
C4_BitboardsPairwiseDisjoint ==
  \A p \in PIECES : \A q \in PIECES :
    p # q => state.board[p] \cap state.board[q] = {}

\* C4, its case: add_piece has refused a taken square, after a make_move or
\* unmake_move that changed the board.
C4_AddPieceRefusedTakenSquare ==
  /\ last.op = "add_piece"
  /\ last.res = "SquareTakenError"
  /\ state.ply # 0
  /\ state.board # DefaultBoard
  /\ state.board # EmptyBoard

\* C25: add_piece on a square that any of the 12 bitboards already contains
\* returns the SquareOccupied error (MoveErrorType::SquareTakenError) and
\* leaves the board unchanged; remove_piece on a square that no bitboard
\* contains returns the NoPieceOnSquare error and leaves the board unchanged;
\* remove_piece on an occupied square returns the piece that stood there and
\* empties the square.
C25_AddAndRemovePieceResults ==
  /\ ( last.op = "add_piece" /\ sq_taken(last.pre.board, last.mv.sq) ) =>
       /\ last.res = "SquareTakenError"
       /\ state.board = last.pre.board
  /\ ( last.op = "remove_piece" /\ ~sq_taken(last.pre.board, last.mv.sq) ) =>
       /\ last.res = "NoPieceOnSquareError"
       /\ state.board = last.pre.board
  /\ ( last.op = "remove_piece" /\ sq_taken(last.pre.board, last.mv.sq) ) =>
       /\ last.res = "Ok"
       /\ last.mv.sq \in last.pre.board[last.mv.piece]
       /\ ~sq_taken(state.board, last.mv.sq)

\* C25, its case: remove_piece has returned the rook of an occupied square
\* and the square is empty, after an add_piece that was refused.
C25_RookRemoved ==
  /\ last.op = "remove_piece"
  /\ last.res = "Ok"
  /\ last.mv.piece = WhiteRook
  /\ sq_taken(last.pre.board, last.mv.sq)
  /\ ~sq_taken(state.board, last.mv.sq)

\* C26: move_piece(from, to) returns an error result and leaves the board
\* unchanged both when to is occupied (SquareOccupied) and when from is empty
\* (NoPieceOnSquare); otherwise the piece that was on from stands on to and
\* from is empty.
C26_MovePieceResults ==
  last.op = "move_piece" =>
    IF sq_taken(last.pre.board, last.mv.dest)
    THEN /\ last.res = "SquareTakenError"
         /\ state.board = last.pre.board
    ELSE IF ~sq_taken(last.pre.board, last.mv.origin)
         THEN /\ last.res = "NoPieceOnSquareError"
              /\ state.board = last.pre.board
         ELSE /\ last.res = "Ok"
              /\ piece(state.board, last.mv.dest) = piece(last.pre.board, last.mv.origin)
              /\ ~sq_taken(state.board, last.mv.origin)

\* C27: unmake_move called on a state whose two histories are empty (no
\* make_move is outstanding) returns the history-underflow error
\* (InsufficientHistory), whatever move is passed.
C27_UnmakeOnEmptyHistory ==
  ( /\ last.op = "unmake_move"
    /\ last.pre.fifty_move_country_hist = << >>
    /\ last.pre.castling_perms_history = << >> ) =>
      last.res = "InsufficientHistory"

\* C39: when make_move or unmake_move returns an error, the game state is
\* exactly as it was before the call: board, side to move, en-passant
\* square, castling rights, fifty-move counter, ply and both history stacks.
C39_ErrorLeavesStateUnchanged ==
  ( /\ last.op \in { "make_move", "unmake_move" }
    /\ last.res \notin { "Ok", "Panic" } ) =>
      /\ state.board = last.pre.board
      /\ state.side_to_move = last.pre.side_to_move
      /\ state.en_passant = last.pre.en_passant
      /\ state.castling_permissions = last.pre.castling_permissions
      /\ state.fifty_move_counter = last.pre.fifty_move_counter
      /\ state.ply = last.pre.ply
      /\ state.fifty_move_country_hist = last.pre.fifty_move_country_hist
      /\ state.castling_perms_history = last.pre.castling_perms_history

(***************************************************************************)
(* A caller that asks is_square_attacked of a board with one piece, or with *)
(* one piece and a second piece that may stand in its way, and of the       *)
(* positions the games start from                                           *)
(***************************************************************************)
\* The squares a piece stands on when a second piece is added: corners, edges
\* and the middle
AttackerSquares == { A1, H1, A8, H8, Sq(3, 4), Sq(4, 5), Sq(0, 4), Sq(6, 2) }

\* The squares and the pieces of the second piece
BlockerSquares == { Sq(3, 5), Sq(4, 4), Sq(2, 3), Sq(5, 6), Sq(3, 1), Sq(1, 1) }

BlockerPieces == { WhiteKnight, BlackPawn }

\* Board::empty followed by one or two calls of add_piece; a call that
\* returns SquareTakenError leaves the board as it was
AttackBoards ==
  LET one == { add_piece(EmptyBoard, pc, sq).board : pc \in PIECES, sq \in 0 .. 63 }
      two == { add_piece(add_piece(EmptyBoard, pc, sq).board, blocker, at).board :
                 pc \in PIECES, sq \in AttackerSquares,
                 blocker \in BlockerPieces, at \in BlockerSquares }
  IN  one \cup two

InitAttacked ==
  /\ state \in InitStates
              \cup { GameStateOf(b, White, 0, None) : b \in AttackBoards }
  /\ made = << >>
  /\ last = Call("init", "Ok", 0, state, state, FALSE)
  /\ nops = 0
  /\ perft_out = NoPerft

\* Position::is_square_attacked(sq, by), asked once of the position
IsSquareAttacked ==
  /\ last.op = "init"
  /\ \E sq \in 0 .. 63 : \E by \in { White, Black } :
       last' = Call("is_square_attacked",
                    IF is_square_attacked(state.board, sq, by) THEN "true" ELSE "false",
                    [sq |-> sq, by |-> by], state, state, FALSE)
  /\ nops' = nops + 1
  /\ UNCHANGED << state, made, perft_out >>

NextAttacked == IsSquareAttacked

SpecAttacked == InitAttacked /\ [][NextAttacked]_vars

\* C24: is_square_attacked(sq, C) is true if and only if some piece of
\* colour C could capture onto sq by its movement rules: a pawn of C on one
\* of the two squares from which its capture diagonals reach sq, a knight or
\* king of C one leap or step away, or a bishop, rook or queen of C on one of
\* its rays to sq with only empty squares in between.
C24_AttackedIffCapturePossible ==
  last.op = "is_square_attacked" =>
    ( last.res = "true" <=> Attacked(last.pre.board, last.mv.sq, last.mv.by) )

\* C24, its case: with a White pawn on d4, is_square_attacked has answered
\* true for c5 and White.
C24_PawnOnD4AttacksC5 ==
  /\ last.op = "is_square_attacked"
  /\ last.res = "true"
  /\ piece(last.pre.board, Sq(3, 4)) = WhitePawn
  /\ last.mv = [sq |-> Sq(2, 5), by |-> White]

(***************************************************************************)
(* A caller of the constructors: GameState::from_fen on strings that are   *)
(* well formed or malformed in one or more of their fields.                *)
(***************************************************************************)
\* The FEN strings the caller passes, as sequences of fields: a piece
\* placement, a side, castling rights, an en-passant token, and then two
\* clocks, one clock, or two clocks and a further field
FenInputs ==
  LET Ranks(first, n) == first \o [i \in 1 .. 2 * n |-> IF i % 2 = 1 THEN "/" ELSE "8"]
      placements ==
        { Ranks(<< "8" >>, 7),                          \* 8/8/8/8/8/8/8/8
          Ranks(<< "4", "k", "3" >>, 7),                \* 4k3/8/8/8/8/8/8/8
          Ranks(<< "4", "x", "3" >>, 7),                \* an unknown piece character
          Ranks(<< "9" >>, 7),                          \* the digit 9
          Ranks(<< "0", "8" >>, 7),                     \* the digit 0
          Ranks(<< "7" >>, 7),                          \* a rank of 7 files
          Ranks(<< "4", "k", "4" >>, 7),                \* a rank of 9 files
          Ranks(<< "8" >>, 8),                          \* 9 ranks
          Ranks(<< "8" >>, 7) \o << "k" >> }            \* a piece after the last square
      sides == { << "w" >>, << "b" >> }
      castlings == { << "-" >>, << "K", "Q", "k", "q" >> }
      en_passants ==
        { << "-" >>, << "e", "3" >>, << "h", "8" >>, << "x", "x" >>,
          << "a", "0" >>, << "a", "9" >>, << "e" >>, << "3", "e" >> }
      clocks == { << << "0" >>, << "1" >> >>, << << "0" >> >>,
                  << << "0" >>, << "1" >>, << "1" >> >> }
  IN  { << pl, sd, cr, ep >> \o cl :
          pl \in placements, sd \in sides, cr \in castlings,
          ep \in en_passants, cl \in clocks }

\* GameState::from_fen on one of the strings, in either build
FromFen ==
  /\ last.op = "init"
  /\ \E fen \in FenInputs : \E wraps \in BOOLEAN :
       LET r == GameState_from_fen(fen, wraps)
       IN  /\ state' = r.st
           /\ last' = Call("from_fen", r.res, fen, state, state, FALSE)
  /\ nops' = nops + 1
  /\ UNCHANGED << made, perft_out >>

\* Move::new on any from square with some to squares and on some from squares
\* with any to square, and on every captured piece, promoted piece and flag
NewMove ==
  /\ last.op = "init"
  /\ \E from \in SQUARES : \E to \in SQUARES :
     \E captured_piece \in PIECES \cup { None } :
     \E promoted_piece \in PIECES \cup { None } :
     \E is_en_passant \in BOOLEAN : \E is_pawn_start \in BOOLEAN :
     \E is_castle \in BOOLEAN :
       /\ from \in { A1, H8 } \/ to \in { A1, H8 }
       /\ last' = Call("Move::new", "Ok",
                     [ from |-> from, to |-> to,
                       captured |-> captured_piece, promoted |-> promoted_piece,
                       en_passant |-> is_en_passant, pawn_start |-> is_pawn_start,
                       castle |-> is_castle,
                       move |-> Move_new(from, to, captured_piece, promoted_piece,
                                         is_en_passant, is_pawn_start, is_castle) ],
                     state, state, FALSE)
  /\ nops' = nops + 1
  /\ UNCHANGED << state, made, perft_out >>

\* Square + i8 as the searches call it: sq + dir for each of the 16
\* directions, and sq + dir * depth at depth + 1 of a ray walk for a direction
\* that recur_move_search and recur_attack_sq_search kept in to_search, which
\* they do only when the lookup at every smaller depth was on the board
SquareAdd ==
  /\ last.op = "init"
  /\ \E sq \in SQUARES : \E i \in 1 .. Len(DIRECTIONS) : \E depth \in 1 .. 8 :
       LET dir == DIRECTIONS[i]
       IN  /\ depth > 1 => i <= 8
           /\ \A k \in 1 .. depth - 1 : SqAdd(sq, dir * k) >= 0
           /\ last' = Call("Square::add", "Ok",
                         [ sq |-> sq, dir |-> i, depth |-> depth,
                           mailbox_idx |-> MAILBOX_IDX[sq + 1] + dir * depth,
                           mailbox_no |-> SqAdd(sq, dir * depth) ],
                         state, state, FALSE)
  /\ nops' = nops + 1
  /\ UNCHANGED << state, made, perft_out >>

NextConstructors == FromFen \/ NewMove \/ SquareAdd

\* The caller starts from GameState::default()
InitConstructors == InitBoard /\ state = GameState_default

SpecConstructors == InitConstructors /\ [][NextConstructors]_vars

\* C28: parsing a FEN never aborts the program: a wrong field count, an
\* unknown piece character, an out-of-range digit in the piece placement (0
\* or 9, or a rank that does not sum to 8 files) and a malformed en-passant
\* token (such as xx, a0 or a9) each yield a FEN parse error result.
C28_MalformedFenIsParseError ==
  LET fen == last.mv
      Width(ch) == IF ch \in { "1", "2", "3", "4", "5", "6", "7", "8" } THEN to_digit(ch)
                   ELSE IF ch \in { "P", "N", "B", "R", "Q", "K",
                                    "p", "n", "b", "r", "q", "k" } THEN 1
                   ELSE 100
      RECURSIVE Widths(_, _)
      Widths(chars, i) ==
        IF i > Len(chars) THEN << 0 >>
        ELSE LET rest == Widths(chars, i + 1)
             IN  IF chars[i] = "/" THEN << 0 >> \o rest
                 ELSE << Width(chars[i]) + Head(rest) >> \o Tail(rest)
      PlacementOk(chars) == Widths(chars, 1) = [i \in 1 .. 8 |-> 8]
      EnPassantOk(chars) ==
        \/ chars = << "-" >>
        \/ /\ Len(chars) = 2
           /\ chars[1] \in { "a", "b", "c", "d", "e", "f", "g", "h" }
           /\ chars[2] \in { "1", "2", "3", "4", "5", "6", "7", "8" }
  IN  ( /\ last.op = "from_fen"
        /\ \/ Len(fen) # 6
           \/ ~PlacementOk(fen[1])
           \/ ~EnPassantOk(fen[4]) ) =>
          last.res = "FENParsingError"

\* C29: for every from square, to square, optional captured piece, optional
\* promoted piece and every combination of the three flags, Move::new packs
\* them so that from_sq, to_sq, captured, promoted, en_passant, pawn_start
\* and castle return exactly the inputs, and the packed value has no bit
\* above bit 22.
C29_MoveNewRoundTrip ==
  last.op = "Move::new" =>
    /\ from_sq(last.mv.move) = last.mv.from
    /\ to_sq(last.mv.move) = last.mv.to
    /\ captured(last.mv.move) = last.mv.captured
    /\ promoted(last.mv.move) = last.mv.promoted
    /\ en_passant(last.mv.move) = last.mv.en_passant
    /\ pawn_start(last.mv.move) = last.mv.pawn_start
    /\ castle(last.mv.move) = last.mv.castle
    /\ last.mv.move \in 0 .. 8388607

\* C29, its case: a move with every field at its largest value has been packed
\* and to_sq and captured return what was passed.
C29_EveryFieldFull ==
  /\ last.op = "Move::new"
  /\ last.mv.from = H8
  /\ last.mv.to = H8
  /\ last.mv.captured = BlackKing
  /\ last.mv.promoted = BlackKing
  /\ last.mv.en_passant /\ last.mv.pawn_start /\ last.mv.castle
  /\ to_sq(last.mv.move) = H8
  /\ captured(last.mv.move) = BlackKing

\* C36: for every square S and each of the 16 directions D, S + D is -1
\* exactly when the square one step (or knight leap) away in that direction
\* lies off the 8x8 board, steps across the a-file or h-file edge included,
\* and is otherwise the ordinal of the square reached; and the index every
\* lookup reads the 120-cell mailbox at lies in 0..119, the lookups
\* S + k*D of a ray walk included.
C36_MailboxStepOnOrOffBoard ==
  LET Delta == << << 0, 1 >>, << 1, 0 >>, << -1, 0 >>, << 0, -1 >>,
                  << 1, -1 >>, << -1, -1 >>, << 1, 1 >>, << -1, 1 >>,
                  << 1, 2 >>, << -1, 2 >>, << 2, 1 >>, << 2, -1 >>,
                  << 1, -2 >>, << -1, -2 >>, << -2, -1 >>, << -2, 1 >> >>
      f == file(last.mv.sq) + Delta[last.mv.dir][1] * last.mv.depth
      r == rank(last.mv.sq) + Delta[last.mv.dir][2] * last.mv.depth
      on_board == f \in 0 .. 7 /\ r \in 1 .. 8
  IN  last.op = "Square::add" =>
        /\ last.mv.mailbox_idx \in 0 .. 119
        /\ last.mv.mailbox_no = ( IF on_board THEN Sq(f, r) ELSE -1 )

\* A knight leap from h8 reads the last cell of the mailbox, and a bishop's
\* walk from a1 that has passed h8 reads the border behind it.
C36_LookupAtTableEdge ==
  /\ last.op = "Square::add"
  /\ last.mv.mailbox_no = -1
  /\ \/ last.mv.sq = H8 /\ last.mv.mailbox_idx = 119
     \/ last.mv.sq = A1 /\ last.mv.depth = 8 /\ last.mv.mailbox_idx = 109

(***************************************************************************)
(* play/move_gen.rs: generate_pawn_moves.  The Board and Color methods it  *)
(* calls (is_king_in_check, is_square_pinned, pawn_push_dir,               *)
(* pawn_start_rank, pawn_promo_rank, pawn_diagonals) are not in the source *)
(* tree; they are as the specification and the tests of move_gen.rs have   *)
(* them.                                                                   *)
(***************************************************************************)
\* Board::is_king_in_check: the king of the colour stands on a square the
\* opposing colour attacks
is_king_in_check(b, c) ==
  \E sq \in b[IF c = White THEN WhiteKing ELSE BlackKing] :
    is_square_attacked(b, sq, opposing(c))

\* Board::is_square_pinned: the piece on sq is all that shields its own king
\* from an opposing piece
is_square_pinned(b, sq) ==
  LET pc == piece(b, sq)
      without == remove_piece(b, sq).board
  IN  /\ pc # None
      /\ pc \notin { WhiteKing, BlackKing }
      /\ \E ksq \in b[IF color(pc) = White THEN WhiteKing ELSE BlackKing] :
         \E from \in SQUARES :
           LET by == piece(b, from)
           IN  /\ by # None
               /\ color(by) # color(pc)
               /\ CapturesOnto(without, by, from, ksq)
               /\ ~CapturesOnto(b, by, from, ksq)

\* Color::pawn_push_dir
pawn_push_dir(c) == IF c = White THEN North ELSE South

\* Color::pawn_start_rank
pawn_start_rank(c) == IF c = White THEN 2 ELSE 7

\* Color::pawn_promo_rank: the rank a pawn promotes from
pawn_promo_rank(c) == IF c = White THEN 7 ELSE 2

\* Color::pawn_diagonals
pawn_diagonals(c) ==
  IF c = White THEN << NorthWest, NorthEast >> ELSE << SouthWest, SouthEast >>

\* move_alleviates_check; neither unwrap fails on a move generate_pawn_moves
\* passes: the pawn stands on from, and to is empty once an opposing piece
\* is removed from it
move_alleviates_check(b, side_to_move, m) ==
  LET cleared == IF sq_taken_by_color(b, to_sq(m), opposing(side_to_move))
                 THEN remove_piece(b, to_sq(m)).board
                 ELSE b
      future_board == move_piece(cleared, from_sq(m), to_sq(m)).board
  IN  ~is_king_in_check(future_board, side_to_move)

\* generate_pawn_moves: the moves it pushes, in the order it pushes them
generate_pawn_moves(position, sq) ==
  LET stm == position.side_to_move
      b == position.board
      promo_piece == IF stm = White THEN WhiteQueen ELSE BlackQueen
      ep_captured == IF stm = White THEN BlackPawn ELSE WhitePawn
      fwd_mailbox_no == SqAdd(sq, pawn_push_dir(stm))
      is_check == is_king_in_check(b, stm)
      promoted_piece == IF rank(sq) = pawn_promo_rank(stm) THEN promo_piece ELSE None
      Pushed(move_to_make) ==
        IF is_check
        THEN IF move_alleviates_check(b, stm, move_to_make)
             THEN << move_to_make >> ELSE << >>
        ELSE << move_to_make >>
      start ==
        IF rank(sq) = pawn_start_rank(stm)
        THEN LET sq_2_in_front == from_mailbox_no(SqAdd(sq, 2 * pawn_push_dir(stm)))
             IN  IF /\ ~sq_taken(b, from_mailbox_no(fwd_mailbox_no))
                    /\ ~sq_taken(b, sq_2_in_front)
                 THEN Pushed(Move_new(sq, sq_2_in_front, None, None, FALSE, TRUE, FALSE))
                 ELSE << >>
        ELSE << >>
      forward ==
        IF fwd_mailbox_no >= 0
        THEN LET fwd_sq == from_mailbox_no(fwd_mailbox_no)
             IN  IF ~sq_taken(b, fwd_sq)
                 THEN Pushed(Move_new(sq, fwd_sq, None, promoted_piece, FALSE, FALSE, FALSE))
                 ELSE << >>
        ELSE << >>
      Diagonal(dir) ==
        LET diag_mailbox_no == SqAdd(sq, dir)
            diag_sq == from_mailbox_no(diag_mailbox_no)
        IN  IF diag_mailbox_no >= 0
            THEN IF sq_taken_by_color(b, diag_sq, opposing(stm))
                 THEN Pushed(Move_new(sq, diag_sq, piece(b, diag_sq), promoted_piece,
                                      FALSE, FALSE, FALSE))
                 ELSE IF position.en_passant # None /\ diag_sq = position.en_passant
                      THEN << Move_new(sq, diag_sq, ep_captured, None, TRUE, FALSE, FALSE) >>
                      ELSE << >>
            ELSE << >>
  IN  IF is_square_pinned(b, sq) /\ ~is_check
      THEN << >>
      ELSE start \o forward
             \o Diagonal(pawn_diagonals(stm)[1]) \o Diagonal(pawn_diagonals(stm)[2])

\* generate_moves: the moves it pushes for the piece on sq, in the order it
\* pushes them; its knight, king and castling branches are those of
\* Position::legal_moves
generate_moves(position, pc, sq) ==
  IF is_square_pinned(position.board, sq)
  THEN << >>
  ELSE ( IF can_slide(pc)
         THEN recur_move_search(position.board, color(pc), attack_dirs(pc), sq, 1)
         ELSE << >> )
         \o ( IF pc \in { WhiteKnight, BlackKnight }
              THEN KnightMoves(position, pc, sq)
              ELSE << >> )
         \o ( IF pc \in { WhiteKing, BlackKing }
              THEN KingStepMoves(position, pc, sq) \o CastlingMoves(position, pc)
              ELSE << >> )

\* The positions the caller generates pawn moves in, for each colour c to
\* move (Black's are White's mirrored in the ranks): c's king on e4, the
\* other king on a8, a pawn of c on h2 and one more, up to one opposing
\* piece that may give check, and up to one opposing pawn that has just made
\* its double step beside or away from the pawn, with the en-passant square
\* behind it
PawnPositions ==
  LET Flip(sq, c) == IF c = White THEN sq ELSE Sq(file(sq), 9 - rank(sq))
      Own(pc, c) == IF c = White THEN pc ELSE pc + 6
      Other(pc, c) == IF c = White THEN pc ELSE pc - 6
      Put(b, pc, sq) == IF pc = None THEN b ELSE add_piece(b, pc, sq).board
      checkers ==
        { << None, Sq(4, 6) >>, << BlackRook, Sq(4, 6) >>, << BlackRook, Sq(0, 4) >>,
          << BlackRook, Sq(4, 8) >>, << BlackBishop, Sq(7, 7) >>,
          << BlackQueen, Sq(1, 1) >>, << BlackKnight, Sq(3, 6) >>,
          << BlackPawn, Sq(3, 5) >>, << BlackBishop, Sq(0, 7) >>,
          << BlackKnight, Sq(2, 3) >> }
      double_steps == { None, 3, 5 }
  IN  { GameStateOf(
          Put(Put(Put(Put(Put(Put(EmptyBoard,
            Own(WhiteKing, c), Flip(Sq(4, 4), c)),
            Other(BlackKing, c), Flip(Sq(0, 8), c)),
            Own(WhitePawn, c), Flip(Sq(7, 2), c)),
            Own(WhitePawn, c), Flip(pawn, c)),
            IF chk[1] = None THEN None ELSE Other(chk[1], c), Flip(chk[2], c)),
            IF ds = None THEN None ELSE Other(BlackPawn, c),
            IF ds = None THEN 0 ELSE Flip(Sq(ds, 5), c)),
          c, 0, IF ds = None THEN None ELSE Flip(Sq(ds, 6), c)) :
        c \in { White, Black },
        pawn \in { sq \in SQUARES : rank(sq) \in 2 .. 7 /\ sq \notin { Sq(4, 4), Sq(1, 7) } },
        chk \in checkers,
        ds \in double_steps }

InitMoveGen ==
  /\ state \in { s \in PawnPositions :
                   /\ s.board[PawnOf(s.side_to_move)] # {}
                   /\ s.en_passant # None =>
                        /\ ~sq_taken(s.board, s.en_passant)
                        /\ Behind(s.en_passant, s.side_to_move)
                             \in s.board[PawnOf(opposing(s.side_to_move))] }
                \cup InitStates
                \cup { GameStateOf(b, c, 0, None) : b \in AttackBoards, c \in { White, Black } }
  /\ made = << >>
  /\ last = Call("init", "Ok", 0, state, state, FALSE)
  /\ nops = 0
  /\ perft_out = NoPerft

\* generate_pawn_moves for a pawn of the side to move
GeneratePawnMoves ==
  /\ last.op = "init"
  /\ \E sq \in state.board[PawnOf(state.side_to_move)] :
       last' = Call("generate_pawn_moves", "Ok",
                    [sq |-> sq, moves |-> generate_pawn_moves(state, sq)],
                    state, state, FALSE)
  /\ nops' = nops + 1
  /\ UNCHANGED << state, made, perft_out >>

\* generate_moves for a piece of the side to move that is no pawn
GenerateMoves ==
  /\ last.op = "init"
  /\ \E pc \in Emitted(pieces(state.board, state.side_to_move)) \ { WhitePawn, BlackPawn } :
     \E sq \in state.board[pc] :
       last' = Call("generate_moves", "Ok",
                    [sq |-> sq, moves |-> generate_moves(state, pc, sq)],
                    state, state, FALSE)
  /\ nops' = nops + 1
  /\ UNCHANGED << state, made, perft_out >>

\* Position::legal_moves in the same positions
LegalMoves ==
  /\ last.op = "init"
  /\ last' = Call("legal_moves", "Ok", legal_moves(state), state, state, FALSE)
  /\ nops' = nops + 1
  /\ UNCHANGED << state, made, perft_out >>

NextMoveGen == GeneratePawnMoves \/ GenerateMoves \/ LegalMoves

SpecMoveGen == InitMoveGen /\ [][NextMoveGen]_vars

\* C30: when the side to move is in check, every move that
\* generate_pawn_moves emits for a pawn (single push, double push, promotion,
\* capture, en-passant capture) leaves that side's king not in check once
\* make_move has applied it.
C30_PawnMovesLeaveCheck ==
  LET mover == last.pre.side_to_move
      king == IF mover = White THEN WhiteKing ELSE BlackKing
      Checked(b) == \E ksq \in b[king] : Attacked(b, ksq, opposing(mover))
  IN  ( last.op = "generate_pawn_moves" /\ Checked(last.pre.board) ) =>
        \A mv \in Emitted(last.mv.moves) :
          LET after == make_move(mv, last.pre, FALSE)
          IN  after.res = "Ok" /\ ~Checked(after.st.board)

\* C33: legal_moves emits a pawn double push exactly when the pawn stands on
\* its start rank (2 for White, 7 for Black) and both the square one step
\* ahead and the square two steps ahead are empty, and that move and no
\* other carries the double-push flag; a pawn whose forward square is
\* occupied gets neither a single nor a double push.
C33_DoublePushFromStartRankOverEmptySquares ==
  LET moves == Emitted(last.mv)
      mover == last.pre.side_to_move
      step == IF mover = White THEN 8 ELSE -8
      start == IF mover = White THEN 2 ELSE 7
      Free(sq) == sq \in SQUARES /\ \A pc \in PIECES : sq \notin last.pre.board[pc]
      Pushes(sq, n) == { mv \in moves : from_sq(mv) = sq /\ to_sq(mv) = sq + n * step }
  IN  last.op = "legal_moves" =>
      /\ \A sq \in last.pre.board[PawnOf(mover)] :
           /\ Pushes(sq, 2) # {} <=>
                ( rank(sq) = start /\ Free(sq + step) /\ Free(sq + 2 * step) )
           /\ \A mv \in Pushes(sq, 2) :
                /\ pawn_start(mv)
                /\ captured(mv) = None /\ promoted(mv) = None
                /\ ~en_passant(mv) /\ ~castle(mv)
           /\ ~Free(sq + step) => Pushes(sq, 1) = {} /\ Pushes(sq, 2) = {}
      /\ \A mv \in moves :
           pawn_start(mv) => /\ from_sq(mv) \in last.pre.board[PawnOf(mover)]
                             /\ to_sq(mv) = from_sq(mv) + 2 * step

\* C33, its case: legal_moves emits a double push for
\* one pawn of the side to move and none for another pawn on the start rank,
\* whose square one step ahead is occupied while the square two steps ahead
\* is empty.
C33_DoublePushAndBlockedPawn ==
  LET moves == Emitted(last.mv)
      mover == last.pre.side_to_move
      step == IF mover = White THEN 8 ELSE -8
      start == IF mover = White THEN 2 ELSE 7
  IN  /\ last.op = "legal_moves"
      /\ \E mv \in moves : pawn_start(mv)
      /\ \E sq \in last.pre.board[PawnOf(mover)] :
           /\ rank(sq) = start
           /\ sq_taken(last.pre.board, sq + step)
           /\ ~sq_taken(last.pre.board, sq + 2 * step)
           /\ \A mv \in moves : from_sq(mv) # sq

\* C34: for a bishop, rook or queen of the side to move on from, legal_moves
\* emits exactly one move to each square that lies on one of the piece's
\* lines from from, with every square between empty, and that holds no piece
\* of its own colour: a quiet move onto an empty square and a capture of the
\* piece standing there onto an opposing piece; hence no slider move passes
\* over an occupied square, lands on its own piece or wraps around an edge.
C34_SliderRayWalk ==
  LET b == last.pre.board
      mover == last.pre.side_to_move
      sliders == IF mover = White THEN { WhiteBishop, WhiteRook, WhiteQueen }
                 ELSE { BlackBishop, BlackRook, BlackQueen }
  IN  last.op = "legal_moves" =>
        \A pc \in sliders : \A from \in b[pc] :
          LET reached == { to \in SQUARES : /\ CapturesOnto(b, pc, from, to)
                                            /\ ~sq_taken_by_color(b, to, mover) }
              at == { i \in 1 .. Len(last.mv) : from_sq(last.mv[i]) = from }
          IN  /\ { last.mv[i] : i \in at }
                   = { Move_new(from, to, piece(b, to), None, FALSE, FALSE, FALSE) :
                         to \in reached }
              /\ Cardinality(at) = Cardinality(reached)

\* C34, its case: legal_moves has emitted for the rook on a1 the quiet moves
\* to b1 and c1 and the capture of the pawn on d1, and no move to e1.
C34_RookStopsAtCapture ==
  /\ last.op = "legal_moves"
  /\ A1 \in last.pre.board[WhiteRook]
  /\ D1 \in last.pre.board[BlackPawn]
  /\ Move_new(A1, C1, None, None, FALSE, FALSE, FALSE) \in Emitted(last.mv)
  /\ Move_new(A1, D1, BlackPawn, None, FALSE, FALSE, FALSE) \in Emitted(last.mv)
  /\ \A mv \in Emitted(last.mv) : to_sq(mv) # E1

\* C35: generate_pawn_moves and generate_moves emit every legal move of the
\* piece on sq, also when the piece is pinned to its own king: for every
\* square the piece can go to by its movement rules (a step, leap or ray
\* onto a square not held by its own colour; for a pawn a push onto an empty
\* square, a double push from the start rank over empty squares, or a
\* diagonal capture of an opposing piece), if the king of the side to move is
\* unattacked once the piece stands there, a move from sq to that square is
\* emitted.
C35_EveryLegalMoveEmitted ==
  LET b == last.pre.board
      mover == last.pre.side_to_move
      sq == last.mv.sq
      pc == piece(b, sq)
      step == IF mover = White THEN 8 ELSE -8
      Free(to) == to \in SQUARES /\ ~sq_taken(b, to)
      Reaches(to) ==
        IF pc \in { WhitePawn, BlackPawn }
        THEN \/ to = sq + step /\ Free(to)
             \/ /\ to = sq + 2 * step
                /\ rank(sq) = (IF mover = White THEN 2 ELSE 7)
                /\ Free(sq + step) /\ Free(to)
             \/ CapturesOnto(b, pc, sq, to) /\ sq_taken_by_color(b, to, opposing(mover))
        ELSE CapturesOnto(b, pc, sq, to) /\ ~sq_taken_by_color(b, to, mover)
      After(to) == [p \in PIECES |-> IF p = pc THEN (b[p] \ { sq }) \cup { to }
                                     ELSE b[p] \ { to }]
      KingSafe(board) ==
        \A ksq \in board[IF mover = White THEN WhiteKing ELSE BlackKing] :
          ~Attacked(board, ksq, opposing(mover))
  IN  last.op \in { "generate_pawn_moves", "generate_moves" } =>
        \A to \in SQUARES :
          ( Reaches(to) /\ KingSafe(After(to)) ) =>
            \E mv \in Emitted(last.mv.moves) : from_sq(mv) = sq /\ to_sq(mv) = to

====
